---- MODULE Spec2Model ----
(***************************************************************************)
(* Strigo: version resolution (repository package), archive extraction     *)
(* and the install pipeline (cmd.handleInstall, downloader.Manager).       *)
(*                                                                         *)
(* Go strings are modelled as sequences of one-character strings, so that  *)
(* regexp matching, strings.Contains/HasPrefix, filepath.Join/Clean and    *)
(* the byte-wise string order are computed, not assumed.                   *)
(***************************************************************************)
EXTENDS Integers, Sequences, FiniteSets, TLC

VARIABLES
  vpath, vout, vpc,          \* ExtractVersionName: input path, result, position
  lresp, listing, repoPath, vfilter, catalog, caterr, cpc
                             \* GetAvailableVersions: outcome of the request, response
                             \* items, repo.Path, versionFilter, returned assets,
                             \* returned error, position

VARIABLES
  xapath, xdest, xfs0, xfs, xerr, xn, xpc
                             \* Extractor.Extract: archive path, destination, the tree
                             \* before the call, the tree, returned error, number of
                             \* headers processed, position

\* CompareVersions and the classifiers on their own: the versions handed in
\* (cmpIn), the results (cmpOut) and the position (cmpPc)
VARIABLES cmpIn, cmpOut, cmpPc

\* The calls of CheckDiskSpace: the required size, what Statfs reports and
\* the tree (dskIn), the errors returned (dskOut) and the position (dskPc)
VARIABLES dskIn, dskOut, dskPc

\* the install command: the tree (fs), the tree when the command started (fs0),
\* when the extraction stage ended (fsx) and when DownloadAndExtract last
\* acted (fsr); the position in the code (pc), the command and its arguments
\* (cmd), cfg.General (general), the requests sent (net), the asset matched in
\* the listing, the DownloadOptions (opts), the probed size, the stages run
\* with their errors (trace), the error DownloadAndExtract returned (derr),
\* what the command reported (outcome) and the number of commands started
VARIABLES fs, fs0, fsx, fsr, pc, cmd, general, net, matchedAsset, opts,
          fileSize, trace, derr, outcome, ncmd

\* The shell configuration files: their contents (shFiles), what they held
\* at first (shFiles0), the tree (shTree), $SHELL (shShell), the outcome of
\* the last command (shOut) and the number of commands run (shN)
VARIABLES shFiles, shFiles0, shTree, shShell, shOut, shN

\* two install commands running at the same time: the tree they share
\* (parFs), each command's position, size, error and report (parProc), the
\* version both install (parCmd) and the configuration (parGen)
VARIABLES parFs, parProc, parCmd, parGen


\* the use command step by step next to a reader of the active-version
\* link: the tree (swFs), the tree the command started from (swFs0), the
\* command, its position and the root it found (swCmd, swPc, swPath), its
\* report (swOut), what the reader saw and when (swSeen), the commands run
\* (swN)
VARIABLES swFs, swFs0, swCmd, swPc, swPath, swOut, swSeen, swN


versionVars == <<vpath, vout, vpc>>

extractVars == <<xapath, xdest, xfs0, xfs, xerr, xn, xpc>>

catalogVars == <<lresp, listing, repoPath, vfilter, catalog, caterr, cpc>>

compareVars == <<cmpIn, cmpOut, cmpPc>>

diskVars == <<dskIn, dskOut, dskPc>>

installVars ==
  <<fs, fs0, fsx, fsr, pc, cmd, general, net, matchedAsset, opts, fileSize,
    trace, derr, outcome, ncmd>>

shellVars == <<shFiles, shFiles0, shTree, shShell, shOut, shN>>

parVars == <<parFs, parProc, parCmd, parGen>>

switchVars == <<swFs, swFs0, swCmd, swPc, swPath, swOut, swSeen, swN>>

vars == <<versionVars, catalogVars, extractVars, installVars, compareVars, diskVars, shellVars, parVars, switchVars>>

(***************************************************************************)
(* Characters and strings                                                  *)
(***************************************************************************)
Digit == {"0", "1", "2", "3", "4", "5", "6", "7", "8", "9"}

Lower == {"a", "b", "c", "d", "e", "f", "g", "h", "i", "j", "k", "l", "m",
          "n", "o", "p", "q", "r", "s", "t", "u", "v", "w", "x", "y", "z"}

Upper == {"A", "B", "C", "D", "E", "F", "G", "H", "I", "J", "K", "L", "M",
          "N", "O", "P", "Q", "R", "S", "T", "U", "V", "W", "X", "Y", "Z"}

\* \w of Go's regexp (RE2): [0-9A-Za-z_]
WordChar == Digit \cup Lower \cup Upper \cup {"_"}

\* The characters of the model in byte order (ASCII).
AsciiOrder ==
  <<"+", "-", ".", "/", "0", "1", "2", "3", "4", "5", "6", "7", "8", "9",
    "A", "B", "C", "D", "E", "F", "G", "H", "I", "J", "K", "L", "M",
    "N", "O", "P", "Q", "R", "S", "T", "U", "V", "W", "X", "Y", "Z", "_",
    "a", "b", "c", "d", "e", "f", "g", "h", "i", "j", "k", "l", "m",
    "n", "o", "p", "q", "r", "s", "t", "u", "v", "w", "x", "y", "z">>

Ord(c) == CHOOSE i \in 1..Len(AsciiOrder) : AsciiOrder[i] = c

\* strings.HasPrefix
HasPrefix(s, p) == Len(p) <= Len(s) /\ SubSeq(s, 1, Len(p)) = p

\* s[i:] of Go with a 1-based index
Drop(s, n) == SubSeq(s, n + 1, Len(s))

\* strings.TrimPrefix
TrimPrefix(s, p) == IF HasPrefix(s, p) THEN Drop(s, Len(p)) ELSE s

\* strings.Contains
Contains(s, sub) ==
  \E i \in 1..(Len(s) + 1) :
    i + Len(sub) - 1 <= Len(s) /\ SubSeq(s, i, i + Len(sub) - 1) = sub

\* the position of the k-th occurrence of sep in s, 0 for k = 0 and
\* Len(s) + 1 when there are fewer than k
SepAt(s, sep, k) ==
  LET seps == {i \in 1..Len(s) : s[i] = sep}
  IN  IF k = 0 THEN 0
      ELSE IF k > Cardinality(seps) THEN Len(s) + 1
      ELSE CHOOSE i \in seps : Cardinality({j \in seps : j < i}) = k - 1

\* strings.Split(s, sep) for a one-character separator
Split(s, sep) ==
  [k \in 1..(Cardinality({i \in 1..Len(s) : s[i] = sep}) + 1) |->
     SubSeq(s, SepAt(s, sep, k - 1) + 1, SepAt(s, sep, k) - 1)]

\* Go's < on strings: byte-wise lexicographic order
RECURSIVE StrLess(_, _)
StrLess(a, b) ==
  IF Len(b) = 0 THEN FALSE
  ELSE IF Len(a) = 0 THEN TRUE
  ELSE IF a[1] = b[1] THEN StrLess(Tail(a), Tail(b))
  ELSE Ord(a[1]) < Ord(b[1])

\* strconv.Atoi succeeds: optional sign, then one or more decimal digits
\* (the strings of the model are far shorter than an int64 overflow needs)
AtoiOk(s) ==
  LET body == IF Len(s) > 0 /\ s[1] \in {"+", "-"} THEN Tail(s) ELSE s
  IN  Len(body) > 0 /\ \A i \in 1..Len(body) : body[i] \in Digit

(***************************************************************************)
(* regexp: the fragment the patterns of the repository use                 *)
(***************************************************************************)
NoMatch == [end |-> 0, cs |-> 0, ce |-> 0]

Lit(c)    == [t |-> "lit",   c |-> c,  cls |-> {}]
Plus(cls) == [t |-> "plus",  c |-> "", cls |-> cls]
Open      == [t |-> "open",  c |-> "", cls |-> {}]
Close     == [t |-> "close", c |-> "", cls |-> {}]

\* a literal string as a sequence of pattern elements
Lits(s) == [i \in 1..Len(s) |-> Lit(s[i])]

\* length of the longest run of characters of cls that starts at s[i]
RECURSIVE RunLen(_, _, _)
RunLen(s, i, cls) ==
  IF i <= Len(s) /\ s[i] \in cls THEN 1 + RunLen(s, i + 1, cls) ELSE 0

\* Backtracking match of pat[k..] at position i of s, greedy quantifiers
\* first; the result carries the end of the match and the capture bounds.
RECURSIVE MatchAt(_, _, _, _)
RECURSIVE MatchPlus(_, _, _, _, _)
MatchAt(pat, k, s, i) ==
  IF k > Len(pat) THEN [end |-> i, cs |-> 0, ce |-> 0]
  ELSE IF pat[k].t = "lit"
    THEN IF i <= Len(s) /\ s[i] = pat[k].c
           THEN MatchAt(pat, k + 1, s, i + 1) ELSE NoMatch
  ELSE IF pat[k].t = "open"
    THEN LET r == MatchAt(pat, k + 1, s, i)
         IN  IF r = NoMatch THEN NoMatch ELSE [r EXCEPT !.cs = i]
  ELSE IF pat[k].t = "close"
    THEN LET r == MatchAt(pat, k + 1, s, i)
         IN  IF r = NoMatch THEN NoMatch ELSE [r EXCEPT !.ce = i]
  ELSE MatchPlus(pat, k, s, i, RunLen(s, i, pat[k].cls))

MatchPlus(pat, k, s, i, n) ==
  IF n < 1 THEN NoMatch
  ELSE LET r == MatchAt(pat, k + 1, s, i + n)
       IN  IF r # NoMatch THEN r ELSE MatchPlus(pat, k, s, i, n - 1)

\* regexp.FindStringSubmatch: leftmost match; <<>> when there is none,
\* <<whole, group1>> otherwise
RECURSIVE FindFrom(_, _, _)
FindFrom(pat, s, i) ==
  IF i > Len(s) + 1 THEN <<>>
  ELSE LET r == MatchAt(pat, 1, s, i)
       IN  IF r # NoMatch
             THEN <<SubSeq(s, i, r.end - 1), SubSeq(s, r.cs, r.ce - 1)>>
             ELSE FindFrom(pat, s, i + 1)

FindStringSubmatch(pat, s) == FindFrom(pat, s, 1)

(***************************************************************************)
(* repository.ExtractVersionName                                           *)
(***************************************************************************)
S_corretto_ == <<"c", "o", "r", "r", "e", "t", "t", "o", "-">>

S_jdk_ == <<"j", "d", "k", "-">>

S_jdk == <<"j", "d", "k">>

S_v == <<"v">>

S_hotspot_ ==
  <<"j", "d", "k", "_", "x", "6", "4", "_", "l", "i", "n", "u", "x", "_",
    "h", "o", "t", "s", "p", "o", "t", "_">>

S_node_v == <<"n", "o", "d", "e", "-", "v">>

S_linux_x64 == <<"-", "l", "i", "n", "u", "x", "-", "x", "6", "4">>

S_amazon_corretto_ ==
  <<"a", "m", "a", "z", "o", "n", "-", "c", "o", "r", "r", "e", "t", "t", "o", "-">>

S_zulu == <<"z", "u", "l", "u">>

S_ca_jdk == <<"-", "c", "a", "-", "j", "d", "k">>

D == Plus(Digit)

\* \d+\.\d+\.\d+
Dotted3 == <<D, Lit("."), D, Lit("."), D>>

\* the ordered pattern list of ExtractVersionName
patterns ==
  << Lits(S_corretto_) \o <<Open>> \o Dotted3 \o <<Lit("."), D, Close>>,
     Lits(S_jdk_) \o <<Open>> \o Dotted3 \o <<Lit("_"), D, Close>>,
     Lits(S_hotspot_) \o <<Open>> \o Dotted3 \o <<Lit("_"), D, Close>>,
     <<Open, D, Lit("u"), D, Plus(WordChar), Close>>,
     Lits(S_node_v) \o <<Open>> \o Dotted3 \o <<Close>> \o Lits(S_linux_x64),
     Lits(S_amazon_corretto_) \o <<Open>> \o Dotted3 \o <<Lit("."), D, Close>>,
     Lits(S_zulu) \o Dotted3 \o Lits(S_ca_jdk) \o <<Open>> \o Dotted3 \o <<Close>> >>

\* the fallback of ExtractVersionName over the path components
RECURSIVE FallbackVersion(_, _)
FallbackVersion(parts, i) ==
  IF i > Len(parts) THEN <<>>
  ELSE LET part == parts[i]
           v1   == TrimPrefix(part, S_v)
           v2   == TrimPrefix(TrimPrefix(part, S_jdk_), S_jdk)
       IN  IF HasPrefix(part, S_v) /\ AtoiOk(Split(v1, ".")[1]) THEN v1
           ELSE IF Contains(part, S_jdk) /\ AtoiOk(Split(v2, ".")[1]) THEN v2
           ELSE FallbackVersion(parts, i + 1)

RECURSIVE FirstPattern(_, _)
FirstPattern(path, k) ==
  IF k > Len(patterns) THEN FallbackVersion(Split(path, "/"), 1)
  ELSE LET matches == FindStringSubmatch(patterns[k], path)
       IN  IF Len(matches) > 1 THEN matches[2] ELSE FirstPattern(path, k + 1)

\* "" (the empty sequence) is the code's "no version" result
ExtractVersionName(path) == FirstPattern(path, 1)

(***************************************************************************)
(* repository.ExtractMajorVersion                                          *)
(***************************************************************************)
S_unknown == <<"u", "n", "k", "n", "o", "w", "n">>

\* ^(\d+)\..* and ^(\d+)u.* up to the final .*, which matches whatever is
\* left of a string without a line break
majorPatterns == <<<<Open, D, Close, Lit(".")>>, <<Open, D, Close, Lit("u")>>>>

\* FindStringSubmatch for a pattern that starts with ^ and ends with .*
FindAnchored(pat, s) ==
  LET r == MatchAt(pat, 1, s, 1)
  IN  IF r # NoMatch THEN <<s, SubSeq(s, r.cs, r.ce - 1)>> ELSE <<>>

RECURSIVE FirstMajor(_, _)
FirstMajor(version, k) ==
  IF k > Len(majorPatterns) THEN S_unknown
  ELSE LET matches == FindAnchored(majorPatterns[k], version)
       IN  IF Len(matches) > 1 THEN matches[2] ELSE FirstMajor(version, k + 1)

ExtractMajorVersion(version) == FirstMajor(version, 1)

(***************************************************************************)
(* cmd.ExtractMajorVersion, the classifier of the other available command  *)
(***************************************************************************)
\* strings.Index for a one-character separator, 1-based; 0 when absent
IndexOf(s, c) ==
  IF \E i \in 1..Len(s) : s[i] = c
    THEN CHOOSE i \in 1..Len(s) : s[i] = c /\ \A j \in 1..(i - 1) : s[j] # c
    ELSE 0

\* strings.TrimLeft
RECURSIVE TrimLeft(_, _)
TrimLeft(s, cutset) ==
  IF Len(s) > 0 /\ s[1] \in cutset THEN TrimLeft(Tail(s), cutset) ELSE s

cmdExtractMajorVersion(version) ==
  LET firstDot == IndexOf(version, ".")
      trimmed == TrimLeft(version, Lower \cup Upper \cup {"-", "_"})
      majorPart == Split(Split(trimmed, ".")[1], "u")[1]
  IN  IF version = <<>> THEN <<>>
      ELSE IF firstDot # 0 /\ AtoiOk(SubSeq(version, 1, firstDot - 1))
        THEN SubSeq(version, 1, firstDot - 1)
      ELSE IF AtoiOk(majorPart) THEN majorPart
      ELSE <<>>

(***************************************************************************)
(* repository.CompareVersions                                              *)
(***************************************************************************)
\* strings.Replace(s, old, new, -1) for one-character old and new
ReplaceChar(s, old, new) == [i \in 1..Len(s) |-> IF s[i] = old THEN new ELSE s[i]]

RECURSIVE DigitsVal(_)
DigitsVal(s) ==
  IF Len(s) = 0 THEN 0
  ELSE 10 * DigitsVal(SubSeq(s, 1, Len(s) - 1)) + (Ord(s[Len(s)]) - Ord("0"))

\* the value strconv.Atoi returns when it succeeds
AtoiVal(s) ==
  IF s[1] = "-" THEN 0 - DigitsVal(Tail(s))
  ELSE IF s[1] = "+" THEN DigitsVal(Tail(s))
  ELSE DigitsVal(s)

VersionParts(v) == Split(ReplaceChar(ReplaceChar(v, "u", "."), "_", "."), ".")

Min(a, b) == IF a < b THEN a ELSE b

RECURSIVE CompareParts(_, _, _, _)
CompareParts(p1, p2, i, minLen) ==
  IF i > minLen THEN Len(p1) < Len(p2)
  ELSE IF ~AtoiOk(p1[i]) \/ ~AtoiOk(p2[i]) THEN CompareParts(p1, p2, i + 1, minLen)
  ELSE IF AtoiVal(p1[i]) # AtoiVal(p2[i]) THEN AtoiVal(p1[i]) < AtoiVal(p2[i])
  ELSE CompareParts(p1, p2, i + 1, minLen)

\* TRUE when v1 is older than v2
CompareVersions(v1, v2) ==
  LET p1 == VersionParts(v1)
      p2 == VersionParts(v2)
  IN  CompareParts(p1, p2, 1, Min(Len(p1), Len(p2)))

(***************************************************************************)
(* repository.NexusClient.GetAvailableVersions                             *)
(***************************************************************************)
SDKAsset(version, url) == [Version |-> version, DownloadUrl |-> url, Filename |-> version]

\* the comparator handed to sort.Slice: sdkAssets[i].Version > sdkAssets[j].Version
AssetLess(a, b) == StrLess(b.Version, a.Version)

\* sort.Slice over assets whose versions are pairwise distinct (they are,
\* after deduplication): the result is the one sequence ordered by AssetLess
RECURSIVE InsertAsset(_, _)
InsertAsset(sorted, a) ==
  IF Len(sorted) = 0 THEN <<a>>
  ELSE IF AssetLess(a, sorted[1]) THEN <<a>> \o sorted
  ELSE <<sorted[1]>> \o InsertAsset(Tail(sorted), a)

RECURSIVE SortAssets(_)
SortAssets(assets) ==
  IF Len(assets) = 0 THEN <<>>
  ELSE InsertAsset(SortAssets(SubSeq(assets, 1, Len(assets) - 1)), assets[Len(assets)])

\* the path check of the loop over data.Items
PathMatches(itemPath, distributionPath) ==
  Contains(itemPath, distributionPath) \/ distributionPath = <<>>

\* the loop without the seenVersions test: every entry becomes an asset
RECURSIVE CollectEveryAsset(_, _, _, _)
CollectEveryAsset(items, i, distributionPath, acc) ==
  IF i > Len(items) THEN acc
  ELSE LET item == items[i]
           versionName == ExtractVersionName(item.path)
       IN  IF ~PathMatches(item.path, distributionPath) \/ versionName = <<>>
             THEN CollectEveryAsset(items, i + 1, distributionPath, acc)
             ELSE CollectEveryAsset(items, i + 1, distributionPath,
                                    Append(acc, SDKAsset(versionName, item.downloadUrl)))

\* the loop over data.Items: path check, version extraction, deduplication
RECURSIVE CollectAssets(_, _, _, _)
CollectAssets(items, i, distributionPath, acc) ==
  IF i > Len(items) THEN acc
  ELSE LET item == items[i]
           versionName == ExtractVersionName(item.path)
           seen == \E k \in 1..Len(acc) : acc[k].Version = versionName
       IN  IF ~PathMatches(item.path, distributionPath)
             THEN CollectAssets(items, i + 1, distributionPath, acc)
           ELSE IF versionName # <<>> /\ ~seen
             THEN CollectAssets(items, i + 1, distributionPath,
                                Append(acc, SDKAsset(versionName, item.downloadUrl)))
           ELSE CollectAssets(items, i + 1, distributionPath, acc)

\* the filter loop: strings.Contains(asset.Version, versionFilter)
FilterMatches(version, versionFilter) == Contains(version, versionFilter)

RECURSIVE FilterAssets(_, _)
FilterAssets(assets, versionFilter) ==
  IF Len(assets) = 0 THEN <<>>
  ELSE IF FilterMatches(assets[1].Version, versionFilter)
    THEN <<assets[1]>> \o FilterAssets(Tail(assets), versionFilter)
  ELSE FilterAssets(Tail(assets), versionFilter)

\* " found for "
S_found_for == <<" ", "f", "o", "u", "n", "d", " ", "f", "o", "r", " ">>

\* fmt.Errorf("no version %s found for %s", ...) and ("no versions found for %s", ...)
NoVersionsMessage(path, versionFilter) ==
  IF versionFilter # <<>>
    THEN <<"n", "o", " ", "v", "e", "r", "s", "i", "o", "n", " ">> \o versionFilter
           \o S_found_for \o path
    ELSE <<"n", "o", " ", "v", "e", "r", "s", "i", "o", "n", "s">> \o S_found_for \o path

\* an empty catalog returned with a nil error
NoEmptyError(versionFilter) == ""

\* the error returned for an empty catalog
EmptyError(versionFilter) ==
  IF versionFilter # <<>> THEN "no version found for filter and path"
  ELSE "no versions found for path"

\* resp: the outcome of http.Get and of decoding the body
\* result: [assets, err]; err = "" stands for a nil error
GetAvailableVersions(path, resp, items, versionFilter) ==
  IF resp = "neterr" THEN [assets |-> <<>>, err |-> "failed to query Nexus API"]
  ELSE IF resp = "badstatus" THEN [assets |-> <<>>, err |-> "nexus API returned status"]
  ELSE IF resp = "badjson" THEN [assets |-> <<>>, err |-> "failed to decode JSON response"]
  ELSE LET all == CollectAssets(items, 1, path, <<>>)
           sdkAssets == IF versionFilter # <<>> THEN FilterAssets(all, versionFilter) ELSE all
       IN  IF Len(sdkAssets) = 0
             THEN [assets |-> <<>>, err |-> EmptyError(versionFilter)]
             ELSE [assets |-> SortAssets(sdkAssets), err |-> ""]

(***************************************************************************)
(* path/filepath on Unix                                                   *)
(***************************************************************************)
Slash == <<"/">>

DotDot == <<".", ".">>

Dot == <<".">>

\* strings.HasSuffix
HasSuffix(s, x) == Len(x) <= Len(s) /\ SubSeq(s, Len(s) - Len(x) + 1, Len(s)) = x

\* filepath.IsAbs
IsAbs(p) == Len(p) > 0 /\ p[1] = "/"

\* the elements of a path joined by "/"
RECURSIVE JoinElems(_)
JoinElems(elems) ==
  IF Len(elems) = 0 THEN <<>>
  ELSE IF Len(elems) = 1 THEN elems[1]
  ELSE elems[1] \o Slash \o JoinElems(Tail(elems))

\* the element stack of filepath.Clean: "" and "." are dropped, ".." pops
\* the element before it, is dropped at the root, and is kept at the start
\* of a relative path
RECURSIVE CleanElems(_, _, _)
CleanElems(elems, rooted, out) ==
  IF Len(elems) = 0 THEN out
  ELSE LET e == elems[1]
           rest == Tail(elems)
       IN  IF e = <<>> \/ e = Dot THEN CleanElems(rest, rooted, out)
           ELSE IF e = DotDot
             THEN IF Len(out) > 0 /\ out[Len(out)] # DotDot
                    THEN CleanElems(rest, rooted, SubSeq(out, 1, Len(out) - 1))
                  ELSE IF rooted THEN CleanElems(rest, rooted, out)
                  ELSE CleanElems(rest, rooted, Append(out, e))
           ELSE CleanElems(rest, rooted, Append(out, e))

\* filepath.Clean
Clean(p) ==
  IF p = <<>> THEN Dot
  ELSE LET body == JoinElems(CleanElems(Split(p, "/"), IsAbs(p), <<>>))
       IN  IF IsAbs(p) THEN Slash \o body
           ELSE IF body = <<>> THEN Dot ELSE body

\* filepath.Join: empty elements are ignored, the rest is joined and cleaned
JoinAll(elems) ==
  LET nonEmpty == SelectSeq(elems, LAMBDA e : e # <<>>)
  IN  IF Len(nonEmpty) = 0 THEN <<>> ELSE Clean(JoinElems(nonEmpty))

Join(a, b) == JoinAll(<<a, b>>)

\* index of the last "/" of p, 0 when there is none
LastSlash(p) ==
  IF \E i \in 1..Len(p) : p[i] = "/"
    THEN CHOOSE i \in 1..Len(p) : p[i] = "/" /\ \A j \in (i + 1)..Len(p) : p[j] # "/"
    ELSE 0

\* filepath.Dir
Dir(p) == Clean(SubSeq(p, 1, LastSlash(p)))

\* p without its trailing slashes
RECURSIVE StripSlashes(_)
StripSlashes(p) ==
  IF Len(p) > 0 /\ p[Len(p)] = "/" THEN StripSlashes(SubSeq(p, 1, Len(p) - 1)) ELSE p

\* filepath.Base
Base(p) ==
  IF p = <<>> THEN Dot
  ELSE LET q == StripSlashes(p)
       IN  IF q = <<>> THEN Slash ELSE Drop(q, LastSlash(q))

(***************************************************************************)
(* The filesystem: a function from cleaned absolute paths to nodes         *)
(***************************************************************************)
\* ino identifies the inode of a regular file (hard links share it)
DirNode == [kind |-> "dir", data |-> <<>>, to |-> <<>>, ino |-> 0]

FileNode(data, ino) == [kind |-> "file", data |-> data, to |-> <<>>, ino |-> ino]

LinkNode(to) == [kind |-> "link", data |-> <<>>, to |-> to, ino |-> 0]

\* file contents are sequences of records: an archive is the sequence of its
\* tar headers (HdrBad marks the point where the stream is corrupt), any
\* other file is one HdrRaw record
Hdr(name, typeflag, data) == [name |-> name, typeflag |-> typeflag, data |-> data]

HdrDir(name) == Hdr(name, "dir", <<>>)

HdrReg(name, data) == Hdr(name, "reg", data)

HdrSym(name) == Hdr(name, "sym", <<>>)

HdrBad == Hdr(<<>>, "bad", <<>>)

HdrRaw(tag) == Hdr(tag, "raw", <<>>)

\* the root directory always exists and is not kept in the function
Exists(f, p) == p = Slash \/ p \in DOMAIN f

IsDirAt(f, p) == p = Slash \/ (p \in DOMAIN f /\ f[p].kind = "dir")

\* p lies strictly below dir
Below(p, dir) == IF dir = Slash THEN p # Slash ELSE HasPrefix(p, dir \o Slash)

\* p and the directories above it, the root excluded
Chain(p) == {SubSeq(p, 1, i) : i \in {j \in 1..Len(p) : j = Len(p) \/ p[j + 1] = "/"}}

\* f with the node n at path p
Put(f, p, n) == [q \in DOMAIN f \cup {p} |-> IF q = p THEN n ELSE f[q]]

IsFileAt(f, p) == p \in DOMAIN f /\ f[p].kind = "file"

\* os.Stat succeeds (a symbolic link is followed to its target)
StatOk(f, p) ==
  Exists(f, p) /\ (p \in DOMAIN f /\ f[p].kind = "link" => Exists(f, f[p].to))

\* an inode number no file of f uses
FreshIno(f) ==
  CHOOSE n \in 1..(Cardinality(DOMAIN f) + 1) : \A q \in DOMAIN f : f[q].ino # n

\* the tree after data was written to the file at p, opened with O_CREATE:
\* an existing file keeps its inode, so every hard link to it shows the data
WriteFile(f, p, data) ==
  IF IsFileAt(f, p)
    THEN [q \in DOMAIN f |->
            IF f[q].kind = "file" /\ f[q].ino = f[p].ino
              THEN [f[q] EXCEPT !.data = data] ELSE f[q]]
    ELSE Put(f, p, FileNode(data, FreshIno(f)))

\* os.MkdirAll succeeds: nothing on the way down to p is a non-directory
MkdirAllOk(f, p) == \A q \in Chain(p) : Exists(f, q) => IsDirAt(f, q)

\* the tree after a successful os.MkdirAll
MkdirAll(f, p) ==
  [q \in DOMAIN f \cup Chain(p) |-> IF q \in DOMAIN f THEN f[q] ELSE DirNode]

\* the tree after os.RemoveAll
RemoveAll(f, p) == [q \in {x \in DOMAIN f : x # p /\ ~Below(x, p)} |-> f[q]]

\* the names os.ReadDir returns for a directory, in its (sorted) order
Children(f, dir) == {q \in DOMAIN f : Below(q, dir) /\ Dir(q) = dir}

(***************************************************************************)
(* downloader.Extractor                                                    *)
(***************************************************************************)
S_tar_gz == <<".", "t", "a", "r", ".", "g", "z">>

S_tar_xz == <<".", "t", "a", "r", ".", "x", "z">>

\* the check without the trailing separator
TargetInsideNoSeparator(target, destPath) == HasPrefix(Clean(target), Clean(destPath))

\* the check of extractTar on the joined target path
TargetInside(target, destPath) == HasPrefix(target, Clean(destPath) \o Slash)

\* the file a path opens: a symbolic link is followed to what it names
Resolve(f, p) == IF p \in DOMAIN f /\ f[p].kind = "link" THEN f[p].to ELSE p

\* extractFile: MkdirAll of the parent, then OpenFile(O_CREATE|O_WRONLY) and io.Copy
ExtractFile(f, path, data) ==
  IF ~MkdirAllOk(f, Dir(path)) THEN [fs |-> f, err |-> "failed to extract file"]
  ELSE LET g == MkdirAll(f, Dir(path))
           file == Resolve(g, path)
       IN  IF IsDirAt(g, file) \/ ~IsDirAt(g, Dir(file))
             THEN [fs |-> g, err |-> "failed to extract file"]
           ELSE [fs |-> WriteFile(g, file, data), err |-> ""]

\* the body of the loop of extractTar for one header
ExtractEntry(f, destPath, header) ==
  LET target == Join(destPath, header.name)
  IN  IF ~TargetInside(target, destPath) THEN [fs |-> f, err |-> "invalid tar path"]
      ELSE IF header.typeflag = "dir"
        THEN IF MkdirAllOk(f, target)
               THEN [fs |-> MkdirAll(f, target), err |-> ""]
               ELSE [fs |-> f, err |-> "failed to create directory"]
      ELSE IF header.typeflag = "reg" THEN ExtractFile(f, target, header.data)
      ELSE [fs |-> f, err |-> ""]

\* extractTar; n is the number of headers that were fully processed
RECURSIVE ExtractTar(_, _, _, _)
ExtractTar(f, entries, i, destPath) ==
  IF i > Len(entries) THEN [fs |-> f, err |-> "", n |-> i - 1]
  ELSE IF entries[i].typeflag \in {"bad", "raw"}
    THEN [fs |-> f, err |-> "failed to read tar header", n |-> i - 1]
  ELSE LET r == ExtractEntry(f, destPath, entries[i])
       IN  IF r.err # "" THEN [fs |-> r.fs, err |-> r.err, n |-> i - 1]
           ELSE ExtractTar(r.fs, entries, i + 1, destPath)

\* Extractor.Extract with extractTarGz / extractTarXz
Extract(f, archivePath, destPath) ==
  IF ~IsAbs(destPath)
    THEN [fs |-> f, err |-> "destination path must be absolute", n |-> 0]
  ELSE IF ~HasSuffix(archivePath, S_tar_gz) /\ ~HasSuffix(archivePath, S_tar_xz)
    THEN [fs |-> f, err |-> "unsupported archive format", n |-> 0]
  ELSE IF ~(Exists(f, archivePath) /\ f[archivePath].kind = "file")
    THEN [fs |-> f, err |-> "failed to open archive", n |-> 0]
  ELSE ExtractTar(f, f[archivePath].data, 1, destPath)

(***************************************************************************)
(* downloader/core: CheckDiskSpace                                         *)
(***************************************************************************)
\* the width of the integers of the model (the code's are 64 bits wide)
WordBits == 8

\* the largest int64 and the largest uint64, at the width of the model
MaxInt == 2 ^ (WordBits - 1) - 1

MaxUint == 2 ^ WordBits - 1

\* a doubling that would keep the sign bit out of the result
RequiredWithinSigned(requiredBytes) == (requiredBytes * 2) % (2 ^ (WordBits - 1))

\* uint64(requiredBytes * 2): the product wraps at the width of the integer
Required(requiredBytes) == (requiredBytes * 2) % (2 ^ WordBits)

\* CheckDiskSpace, available being what Statfs reports for path
CheckDiskSpace(f, requiredBytes, path, available) ==
  IF ~StatOk(f, path) THEN "failed to check disk space"
  ELSE IF available < Required(requiredBytes) THEN "not enough bytes available"
  ELSE ""

\* checkDiskSpace of package downloader, the same check
checkDiskSpace(f, requiredBytes, path, available) ==
  IF ~StatOk(f, path) THEN "failed to check disk space"
  ELSE IF available < Required(requiredBytes) THEN "not enough bytes available"
  ELSE ""

(***************************************************************************)
(* downloader/cache.Manager                                                *)
(***************************************************************************)
\* the tree after os.Remove of an empty directory
RemoveNode(f, p) == [q \in DOMAIN f \ {p} |-> f[q]]

\* the loop of cleanupCacheDirectory over the parents
RECURSIVE PruneParents(_, _)
PruneParents(f, parent) ==
  IF parent = Dir(parent) THEN f
  ELSE IF ~(parent \in DOMAIN f /\ f[parent].kind = "dir") \/ Children(f, parent) # {} THEN f
  ELSE PruneParents(RemoveNode(f, parent), Dir(parent))

cleanupCacheDirectory(f, cachePath) == PruneParents(RemoveAll(f, cachePath), Dir(cachePath))

CleanupCache(f, cachePath, keepCache) ==
  IF ~keepCache THEN cleanupCacheDirectory(f, cachePath) ELSE f

(***************************************************************************)
(* downloader/jdk.CertificateManager                                       *)
(***************************************************************************)
S_original == <<".", "o", "r", "i", "g", "i", "n", "a", "l">>

\* the bytes os.ReadFile returns for p
Content(f, p) == IF f[p].kind = "link" THEN f[f[p].to].data ELSE f[p].data

\* os.ReadFile succeeds
ReadOk(f, p) ==
  /\ p \in DOMAIN f
  /\ \/ f[p].kind = "file"
     \/ f[p].kind = "link" /\ IsFileAt(f, f[p].to)

SetupCertificates(f, installPath, config) ==
  LET jdkCacertsPath == Join(installPath, config.JDKSecurityPath)
      backupPath == jdkCacertsPath \o S_original
  IN  IF ~config.Enabled THEN [fs |-> f, err |-> ""]
      ELSE IF ~StatOk(f, jdkCacertsPath) THEN [fs |-> f, err |-> "JDK cacerts not found"]
      ELSE IF ~StatOk(f, config.SystemCacertsPath)
        THEN [fs |-> f, err |-> "system cacerts not found"]
      ELSE IF IsDirAt(f, jdkCacertsPath) \/ Exists(f, backupPath)
        THEN [fs |-> f, err |-> "failed to backup cacerts"]
      ELSE LET g == Put(f, backupPath, f[jdkCacertsPath])
           IN  IF ~ReadOk(g, config.SystemCacertsPath)
                 THEN [fs |-> g, err |-> "failed to copy system cacerts"]
                 ELSE [fs |-> WriteFile(g, jdkCacertsPath, Content(g, config.SystemCacertsPath)),
                       err |-> ""]

(***************************************************************************)
(* cmd: configuration and the certificate part of handleInstall            *)
(***************************************************************************)
\* "/s"
SDKInstallDir == <<"/", "s">>

\* "/c"
CacheDir == <<"/", "c">>

S_node == <<"n", "o", "d", "e">>

S_temurin == <<"t", "e", "m", "u", "r", "i", "n">>

S_jdks == <<"j", "d", "k", "s">>

S_nodes == <<"n", "o", "d", "e", "s">>

\* "jdk/temurin"
R_temurin == S_jdk \o Slash \o S_temurin

\* cfg.SDKTypes
SDKTypes ==
  [t \in {S_jdk, S_node} |->
     IF t = S_jdk THEN [Type |-> S_jdk, InstallDir |-> S_jdks]
     ELSE [Type |-> S_node, InstallDir |-> S_nodes]]

\* cfg.SDKRepositories
SDKRepositories ==
  [d \in {S_temurin, S_node} |->
     IF d = S_temurin THEN [Type |-> S_jdk, Registry |-> "nexus", Path |-> R_temurin]
     ELSE [Type |-> S_node, Registry |-> "nexus", Path |-> S_node]]

\* cfg.Registries
Registries == [r \in {"nexus"} |-> [Type |-> "nexus"]]

GetInstallPath(sdkType, distribution, version) ==
  JoinAll(<<SDKInstallDir, SDKTypes[sdkType].InstallDir, distribution, version>>)

\* the entries of os.ReadDir are sorted by name: the first one of a set
FirstByName(paths) ==
  CHOOSE c \in paths : \A e \in paths \ {c} : StrLess(Base(c), Base(e))

\* the directories of installPath whose name starts with "jdk"
JdkDirs(f, installPath) ==
  {c \in Children(f, installPath) : f[c].kind = "dir" /\ HasPrefix(Base(c), S_jdk)}

\* handleInstall after a successful DownloadAndExtract of a jdk: find the
\* extracted directory, remove its cacerts and link the system ones
LinkSystemCertificates(f, installPath, cfgGeneral) ==
  IF JdkDirs(f, installPath) = {} THEN [fs |-> f, err |-> "could not find JDK directory"]
  ELSE LET jdkPath == FirstByName(JdkDirs(f, installPath))
           jdkSecPath == Join(jdkPath, cfgGeneral.JDKSecurityPath)
           g == RemoveAll(f, jdkSecPath)
       IN  IF ~MkdirAllOk(g, Dir(jdkSecPath))
             THEN [fs |-> g, err |-> "failed to create security directory"]
           ELSE IF cfgGeneral.SystemCacertsPath = <<>> \/ Exists(MkdirAll(g, Dir(jdkSecPath)), jdkSecPath)
             THEN [fs |-> MkdirAll(g, Dir(jdkSecPath)),
                   err |-> "failed to create symlink to system certificates"]
           ELSE [fs |-> Put(MkdirAll(g, Dir(jdkSecPath)), jdkSecPath,
                            LinkNode(cfgGeneral.SystemCacertsPath)),
                 err |-> ""]

\* the version directory itself created with its parents
CreateVersionDirectory(f, installPath) == MkdirAll(f, installPath)

\* handleInstall creates the directories above the version directory
CreateParent(f, installPath) == MkdirAll(f, Dir(installPath))

\* a failure that leaves the tree as it is
NoRollback(f, installPath) == f

\* handleInstall after a failed DownloadAndExtract
Rollback(f, installPath) == RemoveAll(f, installPath)

\* config.EnsureDirectoriesExist, run when the command starts
EnsureDirectoriesExist(f) == MkdirAll(MkdirAll(f, SDKInstallDir), CacheDir)

(***************************************************************************)
(* cmd: the use command                                                    *)
(***************************************************************************)
\* the entries of basePath for which entry.IsDir() holds
SubDirs(f, basePath) == {c \in Children(f, basePath) : f[c].kind = "dir"}

\* getSDKBinPath of use.go: the only directory of basePath, and an error
\* when there is none or more than one
getSDKBinPath(f, basePath, sdkType) ==
  IF ~IsDirAt(f, basePath) THEN [path |-> <<>>, err |-> "failed to read installation directory"]
  ELSE IF Cardinality(SubDirs(f, basePath)) # 1
    THEN [path |-> <<>>, err |-> "could not find directory"]
  ELSE [path |-> FirstByName(SubDirs(f, basePath)), err |-> ""]

\* the directories of basePath named after the SDK type
PrefixDirs(f, basePath, sdkType) ==
  {c \in SubDirs(f, basePath) :
     \/ sdkType = S_jdk /\ HasPrefix(Base(c), S_jdk)
     \/ sdkType = S_node /\ HasPrefix(Base(c), S_node)}

\* getSDKBinPath of the other revision of the use command: the first
\* directory of basePath named after the SDK type
getSDKBinPathByPrefix(f, basePath, sdkType) ==
  IF ~IsDirAt(f, basePath) THEN [path |-> <<>>, err |-> "failed to read installation directory"]
  ELSE IF PrefixDirs(f, basePath, sdkType) = {}
    THEN [path |-> <<>>, err |-> "could not find directory"]
  ELSE [path |-> FirstByName(PrefixDirs(f, basePath, sdkType)), err |-> ""]

S_current_ == <<"c", "u", "r", "r", "e", "n", "t", "-">>

\* <sdk_install_dir>/current-<type>
CurrentLink(sdkType) == Join(SDKInstallDir, S_current_ \o sdkType)

\* a switch that leaves the existing link in place until the new one is there
KeepExisting(f, linkPath) == f

\* handleUse: os.Lstat of the link path and os.Remove of what is there
RemoveExisting(f, linkPath) == IF linkPath \in DOMAIN f THEN RemoveNode(f, linkPath) ELSE f

\* handleUse without --set-env, sdkPath being what getSDKBinPath returned
handleUse(f, sdkType, distribution, version, sdkPath) ==
  LET installPath == GetInstallPath(sdkType, distribution, version)
      linkPath == CurrentLink(sdkType)
      unlinked == RemoveExisting(f, linkPath)
  IN  IF sdkType \notin DOMAIN SDKTypes
        THEN [fs |-> f, err |-> "SDK type not found in configuration"]
      ELSE IF ~Exists(f, installPath) THEN [fs |-> f, err |-> "version is not installed"]
      ELSE IF sdkPath.err # "" THEN [fs |-> f, err |-> "failed to find SDK binary path"]
      ELSE IF linkPath \in DOMAIN f /\ Children(f, linkPath) # {}
        THEN [fs |-> f, err |-> "failed to remove existing symbolic link"]
      ELSE IF ~IsDirAt(unlinked, Dir(linkPath))
        THEN [fs |-> unlinked, err |-> "failed to create symbolic link"]
      ELSE [fs |-> Put(unlinked, linkPath, LinkNode(sdkPath.path)), err |-> ""]

(***************************************************************************)
(* cmd: the remove command                                                 *)
(***************************************************************************)
\* isDirEmpty: the path opens as a directory and Readdirnames(1) meets the end
isDirEmpty(f, path) ==
  LET at == IF path \in DOMAIN f /\ f[path].kind = "link" THEN f[path].to ELSE path
  IN  IsDirAt(f, at) /\ Children(f, at) = {}

\* the tree after os.Remove of a directory found empty
RemoveIfEmpty(f, path) == IF isDirEmpty(f, path) /\ path \in DOMAIN f THEN RemoveNode(f, path) ELSE f

\* handleRemove: the version directory is looked up under the install
\* directory of the SDK type, the cache directory and the two directories
\* checked for emptiness under the name of the SDK type
handleRemove(f, sdkType, distribution, version, cleanCache) ==
  LET installPath == JoinAll(<<SDKInstallDir, SDKTypes[sdkType].InstallDir, distribution, version>>)
      removed == RemoveAll(f, installPath)
      cachePath == JoinAll(<<CacheDir, sdkType, distribution, version>>)
      cleaned == IF cleanCache /\ StatOk(removed, cachePath) THEN RemoveAll(removed, cachePath)
                 ELSE removed
      vendorPath == JoinAll(<<SDKInstallDir, sdkType, distribution>>)
      toolPath == Join(SDKInstallDir, sdkType)
  IN  IF sdkType \notin DOMAIN SDKTypes
        THEN [fs |-> f, err |-> "SDK type not found in configuration"]
      ELSE IF ~Exists(f, installPath) THEN [fs |-> f, err |-> "version not installed"]
      ELSE [fs |-> RemoveIfEmpty(RemoveIfEmpty(cleaned, vendorPath), toolPath), err |-> ""]

(***************************************************************************)
(* cmd: the shell configuration file                                       *)
(***************************************************************************)
NL == "\n"

\* "# Added by Strigo - "
S_added ==
  <<"#", " ", "A", "d", "d", "e", "d", " ", "b", "y", " ", "S", "t", "r", "i", "g", "o",
    " ", "-", " ">>

\* " configuration"
S_configuration ==
  <<" ", "c", "o", "n", "f", "i", "g", "u", "r", "a", "t", "i", "o", "n">>

\* "export "
S_export_ == <<"e", "x", "p", "o", "r", "t", " ">>

S_JAVA_HOME == <<"J", "A", "V", "A", "_", "H", "O", "M", "E">>

S_NODE_HOME == <<"N", "O", "D", "E", "_", "H", "O", "M", "E">>

\* "export PATH=$"
S_export_PATH == <<"e", "x", "p", "o", "r", "t", " ", "P", "A", "T", "H", "=", "$">>

\* "/bin:$PATH"
S_bin_PATH == <<"/", "b", "i", "n", ":", "$", "P", "A", "T", "H">>

\* "JAVA_HOME="
S_JAVA_HOME_is == <<"J", "A", "V", "A", "_", "H", "O", "M", "E", "=">>

\* "PATH=$JAVA_HOME"
S_PATH_JAVA_HOME == <<"P", "A", "T", "H", "=", "$", "J", "A", "V", "A", "_", "H", "O", "M", "E">>

\* strings.ToUpper on the letters of the model
ToUpper(s) ==
  [i \in 1..Len(s) |-> IF s[i] \in Lower THEN AsciiOrder[Ord(s[i]) - 27] ELSE s[i]]

\* strings.Join
RECURSIVE JoinStrings(_, _)
JoinStrings(elems, sep) ==
  IF Len(elems) = 0 THEN <<>>
  ELSE IF Len(elems) = 1 THEN elems[1]
  ELSE elems[1] \o sep \o JoinStrings(Tail(elems), sep)

\* strings.TrimSuffix
TrimSuffix(s, x) == IF HasSuffix(s, x) THEN SubSeq(s, 1, Len(s) - Len(x)) ELSE s

\* strings.Trim for a one-character cutset
RECURSIVE Trim(_, _)
Trim(s, c) ==
  IF Len(s) > 0 /\ s[1] = c THEN Trim(Tail(s), c)
  ELSE IF Len(s) > 0 /\ s[Len(s)] = c THEN Trim(SubSeq(s, 1, Len(s) - 1), c)
  ELSE s

\* fmt.Sprintf("# Added by Strigo - %s configuration", strings.ToUpper(sdkType))
Marker(sdkType) == S_added \o ToUpper(sdkType) \o S_configuration

EnvVar(sdkType) ==
  IF sdkType = S_jdk THEN S_JAVA_HOME ELSE IF sdkType = S_node THEN S_NODE_HOME ELSE <<>>

\* the block configureEnvironment appends
NewConfig(sdkType, sdkPath) ==
  <<NL>> \o Marker(sdkType) \o <<NL>>
    \o S_export_ \o EnvVar(sdkType) \o <<"=">> \o sdkPath \o <<NL>>
    \o S_export_PATH \o EnvVar(sdkType) \o S_bin_PATH \o <<NL>>

\* the loop of configureEnvironment and of handleUnset: a line that contains
\* the marker is left out together with the two lines that follow it
RECURSIVE SkipBlocks(_, _, _)
SkipBlocks(lines, i, marker) ==
  IF i > Len(lines) THEN <<>>
  ELSE IF Contains(lines[i], marker) THEN SkipBlocks(lines, i + 3, marker)
  ELSE <<lines[i]>> \o SkipBlocks(lines, i + 1, marker)

\* $HOME/.bashrc and $HOME/.zshrc
H_bashrc == <<"/", "h", "/", ".", "b", "a", "s", "h", "r", "c">>

H_zshrc == <<"/", "h", "/", ".", "z", "s", "h", "r", "c">>

S_bash == <<"b", "a", "s", "h">>

S_zsh == <<"z", "s", "h">>

\* findRcFile with shell_config_path unset: the first file that exists
findRcFile(shell, files) ==
  LET rcFiles == IF HasSuffix(shell, S_zsh) THEN <<H_zshrc, H_bashrc>> ELSE <<H_bashrc, H_zshrc>>
      existing == SelectSeq(rcFiles, LAMBDA file : file \in DOMAIN files)
  IN  IF Len(existing) = 0
        THEN [path |-> <<>>, err |-> "no shell configuration file found"]
        ELSE [path |-> existing[1], err |-> ""]

\* the bytes os.ReadFile returns, nothing for a file that does not exist
RcContent(files, path) == IF path \in DOMAIN files THEN files[path] ELSE <<>>

\* os.WriteFile
RcWrite(files, path, content) ==
  [q \in DOMAIN files \cup {path} |-> IF q = path THEN content ELSE files[q]]

\* configureEnvironment: the old block of the SDK type is taken out and the
\* new one is appended
configureEnvironment(files, shell, sdkType, sdkPath) ==
  LET rc == findRcFile(shell, files)
      lines == Split(RcContent(files, rc.path), NL)
      newContent == JoinStrings(SkipBlocks(lines, 1, Marker(sdkType)), <<NL>>)
                      \o NewConfig(sdkType, sdkPath)
  IN  IF rc.err # "" THEN [files |-> files, err |-> rc.err]
      ELSE [files |-> RcWrite(files, rc.path, newContent), err |-> ""]

\* handleUnset
handleUnset(files, shell, sdkType) ==
  LET rc == findRcFile(shell, files)
      lines == Split(RcContent(files, rc.path), NL)
      removed == \E i \in 1..Len(lines) : Contains(lines[i], Marker(sdkType))
      newContent == JoinStrings(SkipBlocks(lines, 1, Marker(sdkType)), <<NL>>) \o <<NL>>
  IN  IF sdkType # S_jdk /\ sdkType # S_node
        THEN [files |-> files, err |-> "unset is only supported for JDK and Node.js"]
      ELSE IF rc.err # "" THEN [files |-> files, err |-> "could not find shell configuration file"]
      ELSE IF ~removed THEN [files |-> files, err |-> ""]
      ELSE [files |-> RcWrite(files, rc.path, newContent), err |-> ""]

\* cleanJavaHome: every line with JAVA_HOME= or PATH=$JAVA_HOME is left out
cleanJavaHome(files, shell) ==
  LET rcFile == IF HasSuffix(shell, S_bash) THEN H_bashrc ELSE H_zshrc
      lines == Split(RcContent(files, rcFile), NL)
      newLines == SelectSeq(lines, LAMBDA line :
                    ~Contains(line, S_JAVA_HOME_is) /\ ~Contains(line, S_PATH_JAVA_HOME))
  IN  IF ~HasSuffix(shell, S_bash) /\ ~HasSuffix(shell, S_zsh)
        THEN [files |-> files, err |-> "unsupported shell"]
        ELSE [files |-> RcWrite(files, rcFile, JoinStrings(newLines, <<NL>>)), err |-> ""]

\* handleClean, javaHome being $JAVA_HOME
handleClean(f, files, shell, javaHome) ==
  LET relativePath == TrimPrefix(javaHome, SDKInstallDir)
      parts == Split(Trim(relativePath, "/"), "/")
      keep == [files |-> files, err |-> ""]
  IN  IF javaHome = <<>> THEN keep
      ELSE IF ~Exists(f, javaHome) THEN cleanJavaHome(files, shell)
      ELSE IF ~HasPrefix(javaHome, SDKInstallDir) THEN keep
      ELSE IF Len(parts) < 3 THEN cleanJavaHome(files, shell)
      ELSE IF TrimSuffix(parts[1], <<"s">>) \notin DOMAIN SDKTypes THEN cleanJavaHome(files, shell)
      ELSE IF parts[2] \notin DOMAIN SDKRepositories THEN cleanJavaHome(files, shell)
      ELSE keep

(***************************************************************************)
(* downloader.Manager.DownloadAndExtract, stage by stage                   *)
(***************************************************************************)
\* the stages whose error ends DownloadAndExtract
FatalStages == {"size", "space", "stage", "download", "extract"}

\* every error returned, as the older DownloadAndExtract did for certificates
StageErrorReturned(stage, err) == err

\* the error DownloadAndExtract returns for a stage that ended with err
\* (an error of the cache cleanup or of the certificates is only logged)
StageError(stage, err) == IF stage \in FatalStages THEN err ELSE ""

\* the certificate stage entered whatever the SDK type
NextStageCertsAlways(stage, err, sdkType) ==
  IF stage \in FatalStages /\ err # "" THEN "returned"
  ELSE IF stage = "size" THEN "space"
  ELSE IF stage = "space" THEN "stage"
  ELSE IF stage = "stage" THEN "download"
  ELSE IF stage = "download" THEN "extract"
  ELSE IF stage = "extract" THEN "cleanup"
  ELSE IF stage = "cleanup" THEN "certs"
  ELSE "returned"

\* where DownloadAndExtract continues after a stage that ended with err
NextStage(stage, err, sdkType) ==
  IF stage \in FatalStages /\ err # "" THEN "returned"
  ELSE IF stage = "size" THEN "space"
  ELSE IF stage = "space" THEN "stage"
  ELSE IF stage = "stage" THEN "download"
  ELSE IF stage = "download" THEN "extract"
  ELSE IF stage = "extract" THEN "cleanup"
  ELSE IF stage = "cleanup" /\ sdkType = S_jdk THEN "certs"
  ELSE "returned"

\* Validator.ValidateSpace on the cache directory, then on the parent of the
\* installation directory
ValidateSpaces(f, size, o, availCache, availInstall) ==
  LET e == CheckDiskSpace(f, size, o.CacheDir, availCache)
  IN  IF e # "" THEN e ELSE CheckDiskSpace(f, size, Dir(o.InstallPath), availInstall)

CachePathOf(o) == JoinAll(<<o.CacheDir, o.SDKType, o.Distribution, o.Version>>)

CacheFileOf(o) == Join(CachePathOf(o), Base(o.DownloadURL))

PrepareCacheDirectory(f, o) ==
  IF MkdirAllOk(f, CachePathOf(o))
    THEN [fs |-> MkdirAll(f, CachePathOf(o)), err |-> ""]
    ELSE [fs |-> f, err |-> "failed to create cache directory"]

\* network.Client.DownloadFile: result is what the server and the transfer do
DownloadFile(f, path, result, body) ==
  IF result = "neterr" THEN [fs |-> f, err |-> "network request failed"]
  ELSE IF result = "badstatus" THEN [fs |-> f, err |-> "server returned non-OK status"]
  ELSE IF IsDirAt(f, path) \/ ~IsDirAt(f, Dir(path))
    THEN [fs |-> f, err |-> "failed to create output file"]
  ELSE IF result = "copyerr"
    THEN [fs |-> WriteFile(f, path, <<HdrBad>>), err |-> "failed to write file"]
  ELSE [fs |-> WriteFile(f, path, body), err |-> ""]

\* Validator.ValidateDirectories, then Extractor.Extract
ValidateAndExtract(f, o) ==
  IF ~MkdirAllOk(f, o.InstallPath)
    THEN [fs |-> f, err |-> "failed to create installation directory"]
    ELSE LET r == Extract(MkdirAll(f, o.InstallPath), CacheFileOf(o), o.InstallPath)
         IN  [fs |-> r.fs, err |-> r.err]

(***************************************************************************)
(* Inputs                                                                  *)
(***************************************************************************)
\* "11.0.26.4.1"
V_corretto ==
  <<"1", "1", ".", "0", ".", "2", "6", ".", "4", ".", "1">>

\* "11.0.26_4"
V_temurin ==
  <<"1", "1", ".", "0", ".", "2", "6", "_", "4">>

\* "8u442b06"
V_legacy ==
  <<"8", "u", "4", "4", "2", "b", "0", "6">>

\* "22.13.1"
V_node ==
  <<"2", "2", ".", "1", "3", ".", "1">>

\* "22.13.1-linux-x64"
T_nodeTail ==
  <<"2", "2", ".", "1", "3", ".", "1", "-", "l", "i", "n", "u", "x", "-",
    "x", "6", "4">>

\* ".tar.gz"
T_targz ==
  <<".", "t", "a", "r", ".", "g", "z">>

\* "amazon-"
T_amazon_ ==
  <<"a", "m", "a", "z", "o", "n", "-">>

\* "11"
F_11 ==
  <<"1", "1">>

\* "jdk/temurin/11/jdk-11.0.26_4/a.tar.gz"
P_t11a ==
  <<"j", "d", "k", "/", "t", "e", "m", "u", "r", "i", "n", "/", "1", "1",
    "/", "j", "d", "k", "-", "1", "1", ".", "0", ".", "2", "6", "_", "4",
    "/", "a", ".", "t", "a", "r", ".", "g", "z">>

\* "jdk/temurin/11/jdk-11.0.24_8/a.tar.gz"
P_t11b ==
  <<"j", "d", "k", "/", "t", "e", "m", "u", "r", "i", "n", "/", "1", "1",
    "/", "j", "d", "k", "-", "1", "1", ".", "0", ".", "2", "4", "_", "8",
    "/", "a", ".", "t", "a", "r", ".", "g", "z">>

\* "jdk/temurin/9/jdk-9.0.4_11/a.tar.gz"
P_t9 ==
  <<"j", "d", "k", "/", "t", "e", "m", "u", "r", "i", "n", "/", "9", "/",
    "j", "d", "k", "-", "9", ".", "0", ".", "4", "_", "1", "1", "/", "a",
    ".", "t", "a", "r", ".", "g", "z">>

\* "jdk/temurin/8/jdk8u442b06/a.tar.gz"
P_t8 ==
  <<"j", "d", "k", "/", "t", "e", "m", "u", "r", "i", "n", "/", "8", "/",
    "j", "d", "k", "8", "u", "4", "4", "2", "b", "0", "6", "/", "a", ".",
    "t", "a", "r", ".", "g", "z">>

\* "jdk/temurin-extra/11/jdk-11.0.27_6/a.tar.gz"
P_extra ==
  <<"j", "d", "k", "/", "t", "e", "m", "u", "r", "i", "n", "-", "e", "x",
    "t", "r", "a", "/", "1", "1", "/", "j", "d", "k", "-", "1", "1", ".",
    "0", ".", "2", "7", "_", "6", "/", "a", ".", "t", "a", "r", ".", "g",
    "z">>

\* "jdk/temurin/11/jdk-11.0.26_4/b.tar.xz"
P_dup ==
  <<"j", "d", "k", "/", "t", "e", "m", "u", "r", "i", "n", "/", "1", "1",
    "/", "j", "d", "k", "-", "1", "1", ".", "0", ".", "2", "6", "_", "4",
    "/", "b", ".", "t", "a", "r", ".", "x", "z">>

\* "jdk/temurin/index.html"
P_none ==
  <<"j", "d", "k", "/", "t", "e", "m", "u", "r", "i", "n", "/", "i", "n",
    "d", "e", "x", ".", "h", "t", "m", "l">>

\* "-extra/"
S_extra ==
  <<"-", "e", "x", "t", "r", "a", "/">>

\* the number of tokens a path handed to ExtractVersionName is built from
MaxTokens == 3

\* the number of items of a listing response
MaxItems == 3

VersionTokens ==
  {S_corretto_, S_jdk_, V_corretto, V_temurin, V_legacy, S_node_v, T_nodeTail,
   <<"/">>, T_targz, T_amazon_}

RECURSIVE Concats(_, _)
Concats(tokens, n) ==
  IF n = 0 THEN {<<>>}
  ELSE LET shorter == Concats(tokens, n - 1)
       IN  shorter \cup {t \o r : t \in tokens, r \in shorter}

ItemPaths == {P_t11a, P_t11b, P_t9, P_t8, P_extra, P_dup, P_none}

\* the download URL of the i-th item of a response
Url(i) == <<"u", AsciiOrder[5 + i]>>

RECURSIVE Listings(_)
Listings(n) ==
  IF n = 0 THEN {<<>>}
  ELSE LET shorter == Listings(n - 1)
       IN  shorter \cup
           {Append(l, [path |-> p, downloadUrl |-> Url(Len(l) + 1)]) :
              l \in {x \in shorter : Len(x) = n - 1}, p \in ItemPaths}

(***************************************************************************)
(* Specification of ExtractVersionName over bounded paths                  *)
(***************************************************************************)
VersionOff == vpath = <<>> /\ vout = <<>> /\ vpc = "off"

CatalogOff ==
  /\ lresp = "off" /\ listing = <<>> /\ repoPath = <<>> /\ vfilter = <<>>
  /\ catalog = <<>> /\ caterr = "" /\ cpc = "off"

ExtractOff ==
  /\ xapath = <<>> /\ xdest = <<>> /\ xfs0 = <<>> /\ xfs = <<>>
  /\ xerr = "" /\ xn = 0 /\ xpc = "off"

NoCommand == [kind |-> "none", sdkType |-> <<>>, distribution |-> <<>>, version |-> <<>>]

NoAsset == SDKAsset(<<>>, <<>>)

NoOptions ==
  [DownloadURL |-> <<>>, CacheDir |-> <<>>, InstallPath |-> <<>>, SDKType |-> <<>>,
   Distribution |-> <<>>, Version |-> <<>>, KeepCache |-> FALSE,
   CertConfig |-> [Enabled |-> FALSE, JDKSecurityPath |-> <<>>, SystemCacertsPath |-> <<>>]]

NoGeneral == [JDKSecurityPath |-> <<>>, SystemCacertsPath |-> <<>>, KeepCache |-> FALSE]

InstallOff ==
  /\ fs = <<>> /\ fs0 = <<>> /\ fsx = <<>> /\ fsr = <<>>
  /\ pc = "off" /\ cmd = NoCommand /\ general = NoGeneral /\ net = <<>>
  /\ matchedAsset = NoAsset /\ opts = NoOptions /\ fileSize = 0
  /\ trace = <<>> /\ derr = "" /\ outcome = "" /\ ncmd = 0

NoCompared ==
  [ab |-> FALSE, ba |-> FALSE, bc |-> FALSE, ac |-> FALSE, aa |-> FALSE,
   major |-> <<>>, cmdMajor |-> <<>>]

CompareOff == cmpIn = <<>> /\ cmpOut = NoCompared /\ cmpPc = "off"

NoChecked == [core |-> "", downloader |-> ""]

DiskOff == dskIn = <<>> /\ dskOut = NoChecked /\ dskPc = "off"

ShellOff ==
  /\ shFiles = <<>> /\ shFiles0 = <<>> /\ shTree = <<>>
  /\ shShell = <<>> /\ shOut = "" /\ shN = 0

ParOff == parFs = <<>> /\ parProc = <<>> /\ parCmd = NoCommand /\ parGen = NoGeneral

SwitchOff ==
  /\ swFs = <<>> /\ swFs0 = <<>> /\ swCmd = NoCommand /\ swPc = "off"
  /\ swPath = <<>> /\ swOut = "" /\ swSeen = <<>> /\ swN = 0

VersionInit ==
  /\ vpath \in Concats(VersionTokens, MaxTokens)
  /\ vout = <<>>
  /\ vpc = "call"
  /\ CatalogOff
  /\ ExtractOff
  /\ InstallOff
  /\ CompareOff
  /\ DiskOff
  /\ ShellOff
  /\ ParOff
  /\ SwitchOff

ExtractVersion ==
  /\ vpc = "call"
  /\ vout' = ExtractVersionName(vpath)
  /\ vpc' = "done"
  /\ UNCHANGED <<vpath, catalogVars, extractVars, installVars, compareVars, diskVars, shellVars, parVars,
                 switchVars>>

VersionNext == ExtractVersion

SpecVersion == VersionInit /\ [][VersionNext]_vars

(***************************************************************************)
(* Specification of GetAvailableVersions over bounded listings             *)
(***************************************************************************)
CatalogInit ==
  /\ \/ lresp = "ok" /\ listing \in Listings(MaxItems)
     \/ lresp \in {"neterr", "badstatus", "badjson"} /\ listing = <<>>
  /\ repoPath \in {R_temurin, <<>>}
  /\ vfilter \in {<<>>, F_11, V_temurin}
  /\ catalog = <<>>
  /\ caterr = ""
  /\ cpc = "call"
  /\ VersionOff
  /\ ExtractOff
  /\ InstallOff
  /\ CompareOff
  /\ DiskOff
  /\ ShellOff
  /\ ParOff
  /\ SwitchOff

FetchCatalog ==
  /\ cpc = "call"
  /\ LET r == GetAvailableVersions(repoPath, lresp, listing, vfilter)
     IN  catalog' = r.assets /\ caterr' = r.err
  /\ cpc' = "done"
  /\ UNCHANGED <<lresp, listing, repoPath, vfilter, versionVars, extractVars, installVars,
                 compareVars, diskVars, shellVars, parVars, switchVars>>

CatalogNext == FetchCatalog

SpecCatalog == CatalogInit /\ [][CatalogNext]_vars

(***************************************************************************)
(* Specification of Extractor.Extract over bounded archives                *)
(***************************************************************************)
\* the number of headers of an archive
MaxEntries == 2

\* "/s/d"
X_dest == <<"/", "s", "/", "d">>

\* "/e", a file outside the destination
X_outside == <<"/", "e">>

\* "/c/a"
X_archive == <<"/", "c", "/", "a">>

EntryNames ==
  { <<"a">>,
    <<"a", "/", "b">>,
    <<".">>,
    <<".", "/">>,
    <<".", "/", "a">>,
    <<"/", "e">>,
    <<"a", "/", ".", ".", "/", ".", ".", "/", "d", "/", "c">>,
    <<".", ".", "/", "e">>,
    <<".", ".", "/", ".", ".", "/", "e">>,
    <<".", ".", "/", "d", "x", "/", "f">> }

ExtractHeaders ==
  {HdrDir(nm) : nm \in EntryNames} \cup {HdrReg(nm, <<HdrRaw(<<"x">>)>>) : nm \in EntryNames}
    \cup {HdrSym(<<"a">>), HdrBad}

RECURSIVE Archives(_)
Archives(n) ==
  IF n = 0 THEN {<<>>}
  ELSE LET shorter == Archives(n - 1)
       IN  shorter \cup {Append(a, h) : a \in {x \in shorter : Len(x) = n - 1}, h \in ExtractHeaders}

\* the tree Extract is called on: the archive, the destination directory
\* (created by ValidateDirectories) and a file outside both
ExtractTree(apath, content) ==
  WriteFile(WriteFile(MkdirAll(MkdirAll(<<>>, X_dest), Dir(apath)), apath, content),
            X_outside, <<HdrRaw(<<"o">>)>>)

ExtractInit ==
  /\ xapath \in {X_archive \o S_tar_gz, X_archive \o S_tar_xz, X_archive}
  /\ xdest \in {X_dest, X_dest \o Slash, <<"d">>}
  /\ \E content \in Archives(MaxEntries) : xfs0 = ExtractTree(xapath, content)
  /\ xfs = xfs0
  /\ xerr = ""
  /\ xn = 0
  /\ xpc = "call"
  /\ VersionOff
  /\ CatalogOff
  /\ InstallOff
  /\ CompareOff
  /\ DiskOff
  /\ ShellOff
  /\ ParOff
  /\ SwitchOff

ExtractArchive ==
  /\ xpc = "call"
  /\ LET r == Extract(xfs, xapath, xdest)
     IN  xfs' = r.fs /\ xerr' = r.err /\ xn' = r.n
  /\ xpc' = "done"
  /\ UNCHANGED <<xapath, xdest, xfs0, versionVars, catalogVars, installVars, compareVars, diskVars,
                 shellVars, parVars, switchVars>>

ExtractNext == ExtractArchive

SpecExtract == ExtractInit /\ [][ExtractNext]_vars

(***************************************************************************)
(* Specification of the install command and of DownloadAndExtract          *)
(***************************************************************************)
\* the number of commands run one after the other on the same tree
MaxCommands == 1

\* "h/a.tar.gz"
U_targz == <<"h", "/", "a">> \o S_tar_gz

\* "h/a.zip"
U_zip == <<"h", "/", "a", ".", "z", "i", "p">>

\* "node/node-v22.13.1-linux-x64.tar.gz"
P_node == S_node \o Slash \o S_node_v \o T_nodeTail \o S_tar_gz

\* "l/c", the cacerts file relative to the JDK
G_security == <<"l", "/", "c">>

\* "/e/c", the system cacerts file
G_system == <<"/", "e", "/", "c">>

\* "jdk-11"
N_jdk11 == S_jdk_ \o F_11

\* a JDK archive: jdk-11/, jdk-11/l/, jdk-11/l/c
A_jdk ==
  <<HdrDir(N_jdk11), HdrDir(N_jdk11 \o <<"/", "l">>),
    HdrReg(N_jdk11 \o Slash \o G_security, <<HdrRaw(<<"j">>)>>)>>

\* an archive without a top directory: l/, l/c
A_flat == <<HdrDir(<<"l">>), HdrReg(G_security, <<HdrRaw(<<"j">>)>>)>>

\* an archive whose second entry leaves the destination
A_evil == <<HdrDir(N_jdk11), HdrReg(<<".", ".", "/", ".", ".", "/", "x">>, <<HdrRaw(<<"x">>)>>)>>

\* an archive whose stream is corrupt after the first entry
A_bad == <<HdrDir(N_jdk11), HdrBad>>

\* "jdk-17"
N_jdk17 == S_jdk_ \o <<"1", "7">>

\* an archive with two top directories: jdk-17/, jdk-11/
A_two == <<HdrDir(N_jdk17), HdrDir(N_jdk11)>>

DownloadBodies == {A_jdk, A_flat, A_evil, A_bad, A_two}

\* the items a listing response is made of
InstallItems ==
  {[path |-> P_t11a, downloadUrl |-> U_targz], [path |-> P_t11a, downloadUrl |-> U_zip],
   [path |-> P_t11b, downloadUrl |-> U_targz], [path |-> P_node, downloadUrl |-> U_targz]}

\* Content-Length values
FileSizes == {1, 100}

\* what Statfs reports as available
Avail == {1, 200}

Generals ==
  [JDKSecurityPath : {<<>>, G_security}, SystemCacertsPath : {<<>>, G_system},
   KeepCache : BOOLEAN]

\* the trees a command may find: nothing yet, the configured directories of
\* an earlier run, the distribution directory of an earlier attempt, an
\* installed version that is the active one, or the archive an earlier run with keep_cache left
\* in the cache; with or without the system cacerts file
InitialTrees ==
  LET withSystem(t) == WriteFile(MkdirAll(t, Dir(G_system)), G_system, <<HdrRaw(<<"s">>)>>)
      versionPath == GetInstallPath(S_jdk, S_temurin, V_temurin)
      ensured == EnsureDirectoriesExist(<<>>)
      parents == MkdirAll(ensured, Dir(versionPath))
      unused ==
        WriteFile(MkdirAll(ensured, JoinAll(<<versionPath, N_jdk11, <<"l">>>>)),
                  JoinAll(<<versionPath, N_jdk11, G_security>>), <<HdrRaw(<<"j">>)>>)
      installed == Put(unused, CurrentLink(S_jdk), LinkNode(Join(versionPath, N_jdk11)))
      cachePath == JoinAll(<<CacheDir, S_jdk, S_temurin, V_temurin>>)
      staged == WriteFile(MkdirAll(ensured, cachePath), Join(cachePath, Base(U_targz)), A_jdk)
      trees == {<<>>, ensured, parents, installed, staged}
  IN  trees \cup {withSystem(t) : t \in trees}

Init ==
  /\ fs \in InitialTrees
  /\ fs0 = fs /\ fsx = fs /\ fsr = fs
  /\ pc = "idle"
  /\ cmd = NoCommand
  /\ general \in Generals
  /\ net = <<>>
  /\ matchedAsset = NoAsset
  /\ opts = NoOptions
  /\ fileSize = 0
  /\ trace = <<>>
  /\ derr = ""
  /\ outcome = ""
  /\ ncmd = 0
  /\ VersionOff
  /\ CatalogOff
  /\ ExtractOff
  /\ CompareOff
  /\ DiskOff
  /\ ShellOff
  /\ ParOff
  /\ SwitchOff

otherVars == <<versionVars, catalogVars, extractVars, compareVars, diskVars, shellVars, parVars, switchVars>>

\* the state a command starts from
Begin(c, tree) ==
  /\ cmd' = c
  /\ fs' = tree /\ fs0' = tree /\ fsx' = tree /\ fsr' = tree
  /\ net' = <<>>
  /\ matchedAsset' = NoAsset
  /\ fileSize' = 0
  /\ trace' = <<>>
  /\ derr' = ""
  /\ ncmd' = ncmd + 1

\* strigo install <type> <distribution> <version>: the configuration is
\* loaded, the directories are ensured and handleInstall looks its arguments up
StartInstall ==
  /\ pc \in {"idle", "done"}
  /\ ncmd < MaxCommands
  /\ \E t \in {S_jdk, S_node}, d \in {S_temurin, S_node}, v \in {V_temurin, V_node} :
       LET known ==
             /\ t \in DOMAIN SDKTypes
             /\ d \in DOMAIN SDKRepositories
             /\ SDKRepositories[d].Type = SDKTypes[t].Type
             /\ SDKRepositories[d].Registry \in DOMAIN Registries
       IN  /\ Begin([kind |-> "install", sdkType |-> t, distribution |-> d, version |-> v],
                    EnsureDirectoriesExist(fs))
           /\ pc' = IF known THEN "fetch" ELSE "done"
           /\ outcome' = IF known THEN "" ELSE "not found in configuration"
  /\ opts' = NoOptions
  /\ UNCHANGED <<general, otherVars>>

\* the first asset of the listing whose version is the requested one
ExactMatches(assets, version) == SelectSeq(assets, LAMBDA a : a.Version = version)

\* handleInstall: FetchAvailableVersions and the search of the exact version
FetchVersions ==
  /\ pc = "fetch"
  /\ \E resp \in {"ok", "neterr"}, item \in InstallItems :
       LET r == GetAvailableVersions(SDKRepositories[cmd.distribution].Path, resp,
                                     <<item>>, cmd.version)
           found == ExactMatches(r.assets, cmd.version)
       IN  /\ net' = Append(net, "list")
           /\ IF r.err # ""
                THEN /\ outcome' = "failed to fetch versions"
                     /\ pc' = "done"
                     /\ UNCHANGED matchedAsset
              ELSE IF Len(found) = 0
                THEN /\ outcome' = "version not found"
                     /\ pc' = "done"
                     /\ UNCHANGED matchedAsset
              ELSE /\ outcome' = ""
                   /\ pc' = "check"
                   /\ matchedAsset' = found[1]
  /\ UNCHANGED <<fs, fs0, fsx, fsr, cmd, general, opts, fileSize, trace, derr, ncmd, otherVars>>

\* the DownloadOptions handleInstall builds (CertConfig.Enabled is left unset)
InstallOptions(c, asset, g) ==
  [DownloadURL |-> asset.DownloadUrl, CacheDir |-> CacheDir,
   InstallPath |-> GetInstallPath(c.sdkType, c.distribution, c.version),
   SDKType |-> c.sdkType, Distribution |-> c.distribution, Version |-> c.version,
   KeepCache |-> g.KeepCache,
   CertConfig |-> [Enabled |-> FALSE, JDKSecurityPath |-> g.JDKSecurityPath,
                   SystemCacertsPath |-> g.SystemCacertsPath]]

\* handleInstall: the installed check, the parent directories and the options
CheckInstalled ==
  /\ pc = "check"
  /\ LET installPath == GetInstallPath(cmd.sdkType, cmd.distribution, cmd.version)
     IN  IF StatOk(fs, installPath)
           THEN /\ outcome' = "already installed"
                /\ pc' = "done"
                /\ UNCHANGED <<fs, fsr, opts>>
         ELSE IF ~MkdirAllOk(fs, Dir(installPath))
           THEN /\ outcome' = "failed to create installation directory"
                /\ pc' = "done"
                /\ UNCHANGED <<fs, fsr, opts>>
         ELSE /\ fs' = CreateParent(fs, installPath)
              /\ fsr' = fs'
              /\ opts' = InstallOptions(cmd, matchedAsset, general)
              /\ outcome' = ""
              /\ pc' = "size"
  /\ UNCHANGED <<fs0, fsx, cmd, general, net, matchedAsset, fileSize, trace, derr, ncmd, otherVars>>

\* a client of package downloader calls Manager.DownloadAndExtract with
\* options of its own
DirectCall ==
  /\ pc \in {"idle", "done"}
  /\ ncmd < MaxCommands
  /\ \E t \in {S_jdk, S_node}, enabled \in BOOLEAN :
       LET c == [kind |-> "direct", sdkType |-> t, distribution |-> S_temurin,
                 version |-> V_temurin]
       IN  /\ Begin(c, fs)
           /\ opts' = [InstallOptions(c, SDKAsset(V_temurin, U_targz), general)
                         EXCEPT !.CertConfig.Enabled = enabled]
  /\ pc' = "size"
  /\ outcome' = ""
  /\ UNCHANGED <<general, otherVars>>

\* the bookkeeping every stage of DownloadAndExtract ends with
EndStage(stage, err) ==
  /\ trace' = Append(trace, [stage |-> stage, err |-> err])
  /\ derr' = StageError(stage, err)
  /\ pc' = NextStage(stage, err, opts.SDKType)

\* network.Client.GetFileSize
ProbeSize ==
  /\ pc = "size"
  /\ \E result \in {"neterr", "ok"}, size \in FileSizes :
       /\ fileSize' = IF result = "neterr" THEN 0 ELSE size
       /\ EndStage("size", IF result = "neterr" THEN "failed to get file size" ELSE "")
  /\ net' = Append(net, "head")
  /\ UNCHANGED <<fs, fs0, fsx, fsr, cmd, general, matchedAsset, opts, outcome, ncmd, otherVars>>

\* the two calls of Validator.ValidateSpace
ValidateSpace ==
  /\ pc = "space"
  /\ \E availCache \in Avail, availInstall \in Avail :
       EndStage("space", ValidateSpaces(fs, fileSize, opts, availCache, availInstall))
  /\ UNCHANGED <<fs, fs0, fsx, fsr, cmd, general, net, matchedAsset, opts, fileSize, outcome,
                 ncmd, otherVars>>

\* cache.Manager.PrepareCacheDirectory
PrepareCache ==
  /\ pc = "stage"
  /\ LET r == PrepareCacheDirectory(fs, opts)
     IN  /\ fs' = r.fs
         /\ fsr' = r.fs
         /\ EndStage("stage", r.err)
  /\ UNCHANGED <<fs0, fsx, cmd, general, net, matchedAsset, opts, fileSize, outcome, ncmd,
                 otherVars>>

\* network.Client.DownloadFile into the cache file
Download ==
  /\ pc = "download"
  /\ \E result \in {"neterr", "badstatus", "copyerr", "ok"}, body \in DownloadBodies :
       LET r == DownloadFile(fs, CacheFileOf(opts), result, body)
       IN  /\ fs' = r.fs
           /\ fsr' = r.fs
           /\ EndStage("download", r.err)
  /\ net' = Append(net, "get")
  /\ UNCHANGED <<fs0, fsx, cmd, general, matchedAsset, opts, fileSize, outcome, ncmd, otherVars>>

\* Validator.ValidateDirectories and Extractor.Extract
ExtractStage ==
  /\ pc = "extract"
  /\ LET r == ValidateAndExtract(fs, opts)
     IN  /\ fs' = r.fs
         /\ fsx' = r.fs
         /\ fsr' = r.fs
         /\ EndStage("extract", r.err)
  /\ UNCHANGED <<fs0, cmd, general, net, matchedAsset, opts, fileSize, outcome, ncmd, otherVars>>

\* cache.Manager.CleanupCache
CleanupStage ==
  /\ pc = "cleanup"
  /\ fs' = CleanupCache(fs, CachePathOf(opts), opts.KeepCache)
  /\ fsr' = fs'
  /\ EndStage("cleanup", "")
  /\ UNCHANGED <<fs0, fsx, cmd, general, net, matchedAsset, opts, fileSize, outcome, ncmd,
                 otherVars>>

\* jdk.CertificateManager.SetupCertificates, for a jdk only
CertStage ==
  /\ pc = "certs"
  /\ LET r == SetupCertificates(fs, opts.InstallPath, opts.CertConfig)
     IN  /\ fs' = r.fs
         /\ fsr' = r.fs
         /\ EndStage("certs", r.err)
  /\ UNCHANGED <<fs0, fsx, cmd, general, net, matchedAsset, opts, fileSize, outcome, ncmd,
                 otherVars>>

\* handleInstall after DownloadAndExtract returned: the cleanup on failure,
\* the certificates of a jdk, the report
FinishInstall ==
  /\ pc = "returned"
  /\ cmd.kind = "install"
  /\ IF derr # ""
       THEN /\ fs' = Rollback(fs, opts.InstallPath)
            /\ outcome' = "installation failed"
     ELSE IF cmd.sdkType = S_jdk
       THEN LET r == LinkSystemCertificates(fs, opts.InstallPath, general)
            IN  /\ fs' = r.fs
                /\ outcome' = IF r.err = "" THEN "installed" ELSE r.err
     ELSE /\ fs' = fs
          /\ outcome' = "installed"
  /\ pc' = "done"
  /\ UNCHANGED <<fs0, fsx, fsr, cmd, general, net, matchedAsset, opts, fileSize, trace, derr,
                 ncmd, otherVars>>

\* DownloadAndExtract returns to the client that called it
ReturnDirect ==
  /\ pc = "returned"
  /\ cmd.kind = "direct"
  /\ outcome' = IF derr = "" THEN "returned nil" ELSE "returned error"
  /\ pc' = "done"
  /\ UNCHANGED <<fs, fs0, fsx, fsr, cmd, general, net, matchedAsset, opts, fileSize, trace,
                 derr, ncmd, otherVars>>

\* strigo use <type> <distribution> <version> for the version of the install
\* command that just ended; the run ends with it
UseVersion ==
  /\ pc = "done"
  /\ cmd.kind = "install"
  /\ LET installPath == GetInstallPath(cmd.sdkType, cmd.distribution, cmd.version)
         r == handleUse(fs, cmd.sdkType, cmd.distribution, cmd.version,
                        getSDKBinPath(fs, installPath, cmd.sdkType))
     IN  /\ fs' = r.fs
         /\ outcome' = IF r.err = "" THEN "active" ELSE r.err
  /\ cmd' = [cmd EXCEPT !.kind = "use"]
  /\ pc' = "used"
  /\ UNCHANGED <<fs0, fsx, fsr, general, net, matchedAsset, opts, fileSize, trace, derr, ncmd,
                 otherVars>>

\* the same command in the revision that looks the directory up by its name
UseVersionByPrefix ==
  /\ pc = "done"
  /\ cmd.kind = "install"
  /\ LET installPath == GetInstallPath(cmd.sdkType, cmd.distribution, cmd.version)
         r == handleUse(fs, cmd.sdkType, cmd.distribution, cmd.version,
                        getSDKBinPathByPrefix(fs, installPath, cmd.sdkType))
     IN  /\ fs' = r.fs
         /\ outcome' = IF r.err = "" THEN "active" ELSE r.err
  /\ cmd' = [cmd EXCEPT !.kind = "useByPrefix"]
  /\ pc' = "used"
  /\ UNCHANGED <<fs0, fsx, fsr, general, net, matchedAsset, opts, fileSize, trace, derr, ncmd,
                 otherVars>>

\* strigo remove <type> <distribution> <version> [--clean-cache] for the
\* version of the command that just ended; the run ends with it
RemoveVersion ==
  /\ pc \in {"done", "used"}
  /\ cmd.kind \in {"install", "use", "useByPrefix"}
  /\ \E cleanCache \in BOOLEAN :
       LET r == handleRemove(fs, cmd.sdkType, cmd.distribution, cmd.version, cleanCache)
       IN  /\ fs' = r.fs
           /\ outcome' = IF r.err = "" THEN "removed" ELSE r.err
  /\ cmd' = [cmd EXCEPT !.kind = "remove"]
  /\ pc' = "removed"
  /\ UNCHANGED <<fs0, fsx, fsr, general, net, matchedAsset, opts, fileSize, trace, derr, ncmd,
                 otherVars>>

Next ==
  \/ StartInstall
  \/ FetchVersions
  \/ CheckInstalled
  \/ DirectCall
  \/ ProbeSize
  \/ ValidateSpace
  \/ PrepareCache
  \/ Download
  \/ ExtractStage
  \/ CleanupStage
  \/ CertStage
  \/ FinishInstall
  \/ ReturnDirect
  \/ UseVersion
  \/ UseVersionByPrefix
  \/ RemoveVersion

Spec == Init /\ [][Next]_vars

(***************************************************************************)
(* Specification of CompareVersions and of the classifiers                 *)
(***************************************************************************)
\* the versions compared and classified
CompareInputs ==
  { <<>>,
    V_legacy,
    <<"8", "u", "4", "4", "2", "b", "0", "7">>,
    <<"8", "u", "6">>,
    <<"8", ".", "5", ".", "1">>,
    <<"1", "1">>,
    <<"1", "1", ".", "0", ".", "1">>,
    <<"1", "1", "_", "0", "_", "1">>,
    V_temurin,
    V_corretto,
    <<"9", ".", "0", ".", "4", "_", "1", "1">>,
    <<"2", "1", ".", "0", ".", "1", "1", "_", "4">>,
    <<"j", "d", "k", "-", "1", "7">>,
    V_node }

CompareInit ==
  /\ cmpIn \in CompareInputs \X CompareInputs \X CompareInputs
  /\ cmpOut = NoCompared
  /\ cmpPc = "call"
  /\ VersionOff
  /\ CatalogOff
  /\ ExtractOff
  /\ InstallOff
  /\ DiskOff
  /\ ShellOff
  /\ ParOff
  /\ SwitchOff

\* the comparator of the sort of the available command, on every pair
CompareTriple ==
  /\ cmpPc = "call"
  /\ cmpOut' = [cmpOut EXCEPT !.ab = CompareVersions(cmpIn[1], cmpIn[2]),
                              !.ba = CompareVersions(cmpIn[2], cmpIn[1]),
                              !.bc = CompareVersions(cmpIn[2], cmpIn[3]),
                              !.ac = CompareVersions(cmpIn[1], cmpIn[3]),
                              !.aa = CompareVersions(cmpIn[1], cmpIn[1])]
  /\ cmpPc' = "compared"
  /\ UNCHANGED <<cmpIn, versionVars, catalogVars, extractVars, installVars, diskVars, shellVars, parVars,
                 switchVars>>

\* displayVersions groups the sorted versions by their major version
ClassifyVersion ==
  /\ cmpPc = "compared"
  /\ cmpOut' = [cmpOut EXCEPT !.major = ExtractMajorVersion(cmpIn[1]),
                              !.cmdMajor = cmdExtractMajorVersion(cmpIn[1])]
  /\ cmpPc' = "done"
  /\ UNCHANGED <<cmpIn, versionVars, catalogVars, extractVars, installVars, diskVars, shellVars, parVars,
                 switchVars>>

CompareNext == CompareTriple \/ ClassifyVersion

SpecCompare == CompareInit /\ [][CompareNext]_vars

(***************************************************************************)
(* Specification of the disk space checks                                  *)
(***************************************************************************)
\* the sizes a response may announce: every int64 from 0, and the -1 of an
\* unknown Content-Length
RequiredSizes == -1 .. MaxInt

\* what Statfs may report
AvailableSizes == 0 .. MaxUint

DiskInit ==
  /\ dskIn \in [requiredBytes : RequiredSizes, available : AvailableSizes,
                fs : {<<>>, EnsureDirectoriesExist(<<>>)}]
  /\ dskOut = NoChecked
  /\ dskPc = "call"
  /\ VersionOff
  /\ CatalogOff
  /\ ExtractOff
  /\ InstallOff
  /\ CompareOff
  /\ ShellOff
  /\ ParOff
  /\ SwitchOff

\* core.CheckDiskSpace on the cache directory
CheckCore ==
  /\ dskPc = "call"
  /\ dskOut' = [dskOut EXCEPT !.core =
                  CheckDiskSpace(dskIn.fs, dskIn.requiredBytes, CacheDir, dskIn.available)]
  /\ dskPc' = "core"
  /\ UNCHANGED <<dskIn, versionVars, catalogVars, extractVars, installVars, compareVars, shellVars,
                 parVars, switchVars>>

\* downloader.checkDiskSpace on the cache directory
CheckDownloader ==
  /\ dskPc = "core"
  /\ dskOut' = [dskOut EXCEPT !.downloader =
                  checkDiskSpace(dskIn.fs, dskIn.requiredBytes, CacheDir, dskIn.available)]
  /\ dskPc' = "done"
  /\ UNCHANGED <<dskIn, versionVars, catalogVars, extractVars, installVars, compareVars, shellVars,
                 parVars, switchVars>>

DiskNext == CheckCore \/ CheckDownloader

SpecDisk == DiskInit /\ [][DiskNext]_vars

(***************************************************************************)
(* Specification of the commands that edit the shell configuration file    *)
(***************************************************************************)
\* the number of commands run one after the other on the same files
MaxShellCommands == 2

\* the number of lines the user's file holds at first
MaxRcLines == 2

\* "alias l=ls"
U_alias == <<"a", "l", "i", "a", "s", " ", "l", "=", "l", "s">>

\* "export JAVA_HOME=/o/j", written by the user
U_java ==
  <<"e", "x", "p", "o", "r", "t", " ", "J", "A", "V", "A", "_", "H", "O", "M", "E", "=",
    "/", "o", "/", "j">>

\* "# note"
U_note == <<"#", " ", "n", "o", "t", "e">>

RECURSIVE LineSeqs(_)
LineSeqs(n) ==
  IF n = 0 THEN {<<>>}
  ELSE LET shorter == LineSeqs(n - 1)
       IN  shorter \cup {Append(r, l) : r \in shorter, l \in {U_alias, U_java, U_note}}

\* the contents of the user's file, with and without a final line break
RcContents ==
  {JoinStrings(lines, <<NL>>) \o tail : lines \in LineSeqs(MaxRcLines), tail \in {<<>>, <<NL>>}}

\* "node-v22"
N_node22 == S_node_v \o <<"2", "2">>

\* a tree with one jdk and one node version installed
ShellTree ==
  MkdirAll(MkdirAll(EnsureDirectoriesExist(<<>>),
                    Join(GetInstallPath(S_jdk, S_temurin, V_temurin), N_jdk11)),
           Join(GetInstallPath(S_node, S_node, V_node), N_node22))

\* "/bin/"
S_bin_ == <<"/", "b", "i", "n", "/">>

Shells == {S_bin_ \o S_bash, S_bin_ \o S_zsh, S_bin_ \o <<"s", "h">>}

\* the values of $JAVA_HOME: unset, a path that does not exist, an
\* installed JDK, a directory of the install tree that is no JDK
JavaHomes ==
  {<<>>, <<"/", "o", "/", "j">>, Join(GetInstallPath(S_jdk, S_temurin, V_temurin), N_jdk11),
   Join(SDKInstallDir, S_jdks)}

ShellInit ==
  /\ \E content \in RcContents : shFiles = [path \in {H_bashrc} |-> content]
  /\ shFiles0 = shFiles
  /\ shTree = ShellTree
  /\ shShell \in Shells
  /\ shOut = ""
  /\ shN = 0
  /\ VersionOff
  /\ CatalogOff
  /\ ExtractOff
  /\ InstallOff
  /\ CompareOff
  /\ DiskOff
  /\ ParOff
  /\ SwitchOff

\* the version of each SDK type that is installed in ShellTree
InstalledOf(sdkType) ==
  IF sdkType = S_jdk THEN [distribution |-> S_temurin, version |-> V_temurin]
  ELSE [distribution |-> S_node, version |-> V_node]

\* strigo use <type> <distribution> <version>, with or without --set-env
ShellUse ==
  /\ shN < MaxShellCommands
  /\ \E sdkType \in {S_jdk, S_node}, setEnvVar \in BOOLEAN :
       LET v == InstalledOf(sdkType)
           installPath == GetInstallPath(sdkType, v.distribution, v.version)
           sdkPath == getSDKBinPath(shTree, installPath, sdkType)
           r == handleUse(shTree, sdkType, v.distribution, v.version, sdkPath)
           e == configureEnvironment(shFiles, shShell, sdkType, sdkPath.path)
       IN  /\ shTree' = r.fs
           /\ IF r.err # "" THEN shFiles' = shFiles /\ shOut' = r.err
              ELSE IF ~setEnvVar THEN shFiles' = shFiles /\ shOut' = "active"
              ELSE /\ shFiles' = e.files
                   /\ shOut' = IF e.err = "" THEN "configured" ELSE "failed to configure environment"
  /\ shN' = shN + 1
  /\ UNCHANGED <<shFiles0, shShell, versionVars, catalogVars, extractVars, installVars,
                 compareVars, diskVars, parVars, switchVars>>

\* strigo use <type> --unset
ShellUnset ==
  /\ shN < MaxShellCommands
  /\ \E sdkType \in {S_jdk, S_node} :
       LET r == handleUnset(shFiles, shShell, sdkType)
       IN  /\ shFiles' = r.files
           /\ shOut' = IF r.err = "" THEN "unset" ELSE r.err
  /\ shN' = shN + 1
  /\ UNCHANGED <<shFiles0, shTree, shShell, versionVars, catalogVars, extractVars, installVars,
                 compareVars, diskVars, parVars, switchVars>>

\* strigo clean
ShellClean ==
  /\ shN < MaxShellCommands
  /\ \E javaHome \in JavaHomes :
       LET r == handleClean(shTree, shFiles, shShell, javaHome)
       IN  /\ shFiles' = r.files
           /\ shOut' = IF r.err = "" THEN "cleaned" ELSE r.err
  /\ shN' = shN + 1
  /\ UNCHANGED <<shFiles0, shTree, shShell, versionVars, catalogVars, extractVars, installVars,
                 compareVars, diskVars, parVars, switchVars>>

ShellNext == ShellUse \/ ShellUnset \/ ShellClean

SpecShell == ShellInit /\ [][ShellNext]_vars

(***************************************************************************)
(* Specification of two install commands of the same version running at    *)
(* the same time on one tree.  Each command goes through handleInstall and *)
(* the stages of DownloadAndExtract; a stage is one step, so the creation  *)
(* and writing of the staged file is never interleaved with another step.  *)
(***************************************************************************)
Procs == {1, 2}

\* the archive the server sends for the asset
ParBody == A_jdk

ParTrees ==
  LET ensured == EnsureDirectoriesExist(<<>>)
  IN  {ensured, WriteFile(MkdirAll(ensured, Dir(G_system)), G_system, <<HdrRaw(<<"s">>)>>)}

ParCommands ==
  {[kind |-> "install", sdkType |-> S_jdk, distribution |-> S_temurin, version |-> V_temurin],
   [kind |-> "install", sdkType |-> S_node, distribution |-> S_node, version |-> V_node]}

\* the configurations with jdk_security_path set: with these an install
\* command running alone leaves every entry of the archive in place
ParGenerals == {g \in Generals : g.JDKSecurityPath # <<>>}

\* the options both commands build
ParOpts == InstallOptions(parCmd, SDKAsset(parCmd.version, U_targz), parGen)

ParInit ==
  /\ parFs \in ParTrees
  /\ parCmd \in ParCommands
  /\ parGen \in ParGenerals
  /\ parProc = [i \in Procs |-> [pc |-> "check", size |-> 0, derr |-> "", out |-> ""]]
  /\ VersionOff
  /\ CatalogOff
  /\ ExtractOff
  /\ InstallOff
  /\ CompareOff
  /\ DiskOff
  /\ ShellOff
  /\ SwitchOff

\* the end of a stage of command i
ParEnd(i, stage, err, size) ==
  parProc' = [parProc EXCEPT ![i] =
                [pc |-> NextStage(stage, err, parCmd.sdkType), size |-> size,
                 derr |-> StageError(stage, err), out |-> ""]]

ParUnchanged == UNCHANGED <<parCmd, parGen, versionVars, catalogVars, extractVars, installVars,
                            compareVars, diskVars, shellVars, switchVars>>

\* handleInstall from the installed check on: os.Stat of the version
\* directory, MkdirAll of its parent
ParCheck(i) ==
  /\ parProc[i].pc = "check"
  /\ IF StatOk(parFs, ParOpts.InstallPath)
       THEN /\ parProc' = [parProc EXCEPT ![i].pc = "done", ![i].out = "already installed"]
            /\ parFs' = parFs
     ELSE IF ~MkdirAllOk(parFs, Dir(ParOpts.InstallPath))
       THEN /\ parProc' = [parProc EXCEPT ![i].pc = "done",
                                          ![i].out = "failed to create installation directory"]
            /\ parFs' = parFs
     ELSE /\ parProc' = [parProc EXCEPT ![i].pc = "size"]
          /\ parFs' = CreateParent(parFs, ParOpts.InstallPath)
  /\ ParUnchanged

ParProbeSize(i) ==
  /\ parProc[i].pc = "size"
  /\ \E result \in {"neterr", "ok"}, size \in FileSizes :
       ParEnd(i, "size", IF result = "neterr" THEN "failed to get file size" ELSE "",
              IF result = "neterr" THEN 0 ELSE size)
  /\ parFs' = parFs
  /\ ParUnchanged

ParValidateSpace(i) ==
  /\ parProc[i].pc = "space"
  /\ \E availCache \in Avail, availInstall \in Avail :
       ParEnd(i, "space",
              ValidateSpaces(parFs, parProc[i].size, ParOpts, availCache, availInstall),
              parProc[i].size)
  /\ parFs' = parFs
  /\ ParUnchanged

ParPrepareCache(i) ==
  /\ parProc[i].pc = "stage"
  /\ LET r == PrepareCacheDirectory(parFs, ParOpts)
     IN  /\ parFs' = r.fs
         /\ ParEnd(i, "stage", r.err, parProc[i].size)
  /\ ParUnchanged

\* the staged file created and written in one step
ParDownload(i) ==
  /\ parProc[i].pc = "download"
  /\ \E result \in {"neterr", "copyerr", "ok"} :
       LET r == DownloadFile(parFs, CacheFileOf(ParOpts), result, ParBody)
       IN  /\ parFs' = r.fs
           /\ ParEnd(i, "download", r.err, parProc[i].size)
  /\ ParUnchanged

ParExtract(i) ==
  /\ parProc[i].pc = "extract"
  /\ LET r == ValidateAndExtract(parFs, ParOpts)
     IN  /\ parFs' = r.fs
         /\ ParEnd(i, "extract", r.err, parProc[i].size)
  /\ ParUnchanged

ParCleanup(i) ==
  /\ parProc[i].pc = "cleanup"
  /\ parFs' = CleanupCache(parFs, CachePathOf(ParOpts), ParOpts.KeepCache)
  /\ ParEnd(i, "cleanup", "", parProc[i].size)
  /\ ParUnchanged

ParCerts(i) ==
  /\ parProc[i].pc = "certs"
  /\ LET r == SetupCertificates(parFs, ParOpts.InstallPath, ParOpts.CertConfig)
     IN  /\ parFs' = r.fs
         /\ ParEnd(i, "certs", r.err, parProc[i].size)
  /\ ParUnchanged

\* handleInstall after DownloadAndExtract returned
ParFinish(i) ==
  /\ parProc[i].pc = "returned"
  /\ IF parProc[i].derr # ""
       THEN /\ parFs' = Rollback(parFs, ParOpts.InstallPath)
            /\ parProc' = [parProc EXCEPT ![i].pc = "done", ![i].out = "installation failed"]
     ELSE IF parCmd.sdkType = S_jdk
       THEN LET r == LinkSystemCertificates(parFs, ParOpts.InstallPath, parGen)
            IN  /\ parFs' = r.fs
                /\ parProc' = [parProc EXCEPT ![i].pc = "done",
                                 ![i].out = IF r.err = "" THEN "installed" ELSE r.err]
     ELSE /\ parFs' = parFs
          /\ parProc' = [parProc EXCEPT ![i].pc = "done", ![i].out = "installed"]
  /\ ParUnchanged

ParNext ==
  \/ \E i \in Procs : ParCheck(i)
  \/ \E i \in Procs : ParProbeSize(i)
  \/ \E i \in Procs : ParValidateSpace(i)
  \/ \E i \in Procs : ParPrepareCache(i)
  \/ \E i \in Procs : ParDownload(i)
  \/ \E i \in Procs : ParExtract(i)
  \/ \E i \in Procs : ParCleanup(i)
  \/ \E i \in Procs : ParCerts(i)
  \/ \E i \in Procs : ParFinish(i)

SpecParallel == ParInit /\ [][ParNext]_vars

(***************************************************************************)
(* Specification of the use command taken one system call after the other, *)
(* next to a process that reads the active-version link                    *)
(***************************************************************************)
\* the number of use commands run one after the other
MaxSwitches == 2

\* the number of times the reader looks at a link
MaxReads == 2

\* "17"
V_17 == <<"1", "7">>

\* two jdk versions and one node version installed
SwitchBase ==
  MkdirAll(MkdirAll(MkdirAll(EnsureDirectoriesExist(<<>>),
                             Join(GetInstallPath(S_jdk, S_temurin, V_temurin), N_jdk11)),
                    Join(GetInstallPath(S_jdk, S_temurin, V_17), N_jdk17)),
           Join(GetInstallPath(S_node, S_node, V_node), N_node22))

\* no version active, or one of the jdk versions, with or without the node one
SwitchTrees ==
  LET jdk11 == Put(SwitchBase, CurrentLink(S_jdk),
                   LinkNode(Join(GetInstallPath(S_jdk, S_temurin, V_temurin), N_jdk11)))
      jdk17 == Put(SwitchBase, CurrentLink(S_jdk),
                   LinkNode(Join(GetInstallPath(S_jdk, S_temurin, V_17), N_jdk17)))
      node(t) == Put(t, CurrentLink(S_node),
                     LinkNode(Join(GetInstallPath(S_node, S_node, V_node), N_node22)))
  IN  {SwitchBase, jdk11, jdk17} \cup {node(t) : t \in {SwitchBase, jdk11, jdk17}}

SwitchCommands ==
  {[kind |-> "use", sdkType |-> S_jdk, distribution |-> S_temurin, version |-> V_temurin],
   [kind |-> "use", sdkType |-> S_jdk, distribution |-> S_temurin, version |-> V_17],
   [kind |-> "use", sdkType |-> S_jdk, distribution |-> S_temurin, version |-> V_legacy],
   [kind |-> "use", sdkType |-> S_node, distribution |-> S_node, version |-> V_node]}

SwitchInit ==
  /\ swFs \in SwitchTrees
  /\ swFs0 = swFs
  /\ swCmd = NoCommand
  /\ swPc = "idle"
  /\ swPath = <<>>
  /\ swOut = ""
  /\ swSeen = <<>>
  /\ swN = 0
  /\ VersionOff
  /\ CatalogOff
  /\ ExtractOff
  /\ InstallOff
  /\ CompareOff
  /\ DiskOff
  /\ ShellOff
  /\ ParOff

SwitchUnchanged == UNCHANGED <<versionVars, catalogVars, extractVars, installVars, compareVars,
                               diskVars, shellVars, parVars>>

\* strigo use <type> <distribution> <version>
SwitchStart ==
  /\ swPc \in {"idle", "done"}
  /\ swN < MaxSwitches
  /\ swCmd' \in SwitchCommands
  /\ swFs0' = swFs
  /\ swPc' = "lookup"
  /\ swPath' = <<>>
  /\ swOut' = ""
  /\ swN' = swN + 1
  /\ UNCHANGED <<swFs, swSeen>>
  /\ SwitchUnchanged

\* handleUse: the configuration, os.Stat of the version directory, getSDKBinPath
SwitchLookup ==
  /\ swPc = "lookup"
  /\ LET installPath == GetInstallPath(swCmd.sdkType, swCmd.distribution, swCmd.version)
         sdkPath == getSDKBinPath(swFs, installPath, swCmd.sdkType)
     IN  IF ~Exists(swFs, installPath)
           THEN swPc' = "done" /\ swOut' = "version is not installed" /\ swPath' = <<>>
         ELSE IF sdkPath.err # ""
           THEN swPc' = "done" /\ swOut' = "failed to find SDK binary path" /\ swPath' = <<>>
         ELSE swPc' = "unlink" /\ swOut' = "" /\ swPath' = sdkPath.path
  /\ UNCHANGED <<swFs, swFs0, swCmd, swSeen, swN>>
  /\ SwitchUnchanged

\* handleUse: os.Lstat of the link path and os.Remove of what is there
SwitchUnlink ==
  /\ swPc = "unlink"
  /\ LET linkPath == CurrentLink(swCmd.sdkType)
     IN  IF linkPath \in DOMAIN swFs /\ Children(swFs, linkPath) # {}
           THEN /\ swPc' = "done" /\ swOut' = "failed to remove existing symbolic link"
                /\ swFs' = swFs
           ELSE /\ swPc' = "symlink" /\ swOut' = ""
                /\ swFs' = RemoveExisting(swFs, linkPath)
  /\ UNCHANGED <<swFs0, swCmd, swPath, swSeen, swN>>
  /\ SwitchUnchanged

\* handleUse: os.Symlink
SwitchSymlink ==
  /\ swPc = "symlink"
  /\ LET linkPath == CurrentLink(swCmd.sdkType)
     IN  IF Exists(swFs, linkPath) \/ ~IsDirAt(swFs, Dir(linkPath))
           THEN swFs' = swFs /\ swOut' = "failed to create symbolic link"
           ELSE swFs' = Put(swFs, linkPath, LinkNode(swPath)) /\ swOut' = "active"
  /\ swPc' = "done"
  /\ UNCHANGED <<swFs0, swCmd, swPath, swSeen, swN>>
  /\ SwitchUnchanged

\* another process calls os.Lstat on the link of an SDK type
ReadLink ==
  /\ swPc # "off"
  /\ Len(swSeen) < MaxReads
  /\ \E t \in DOMAIN SDKTypes :
       swSeen' = Append(swSeen, [sdkType |-> t, pc |-> swPc, during |-> swCmd.sdkType,
                                 link |-> CurrentLink(t) \in DOMAIN swFs])
  /\ UNCHANGED <<swFs, swFs0, swCmd, swPc, swPath, swOut, swN>>
  /\ SwitchUnchanged

SwitchNext ==
  \/ SwitchStart
  \/ SwitchLookup
  \/ SwitchUnlink
  \/ SwitchSymlink
  \/ ReadLink

SpecSwitch == SwitchInit /\ [][SwitchNext]_vars

(***************************************************************************)
(* Properties of ExtractVersionName                                        *)
(***************************************************************************)
\* tok occurs in s, and wherever it does there is no digit right before it
\* and no word character right after it
Delimited(s, tok) ==
  /\ Contains(s, tok)
  /\ \A i \in 1..Len(s) :
       (i + Len(tok) - 1 <= Len(s) /\ SubSeq(s, i, i + Len(tok) - 1) = tok) =>
         /\ (i = 1 \/ s[i - 1] \notin Digit)
         /\ (i + Len(tok) > Len(s) \/ s[i + Len(tok)] \notin WordChar)

PatternMatched(k, path) == Len(FindStringSubmatch(patterns[k], path)) > 1

CorrettoCase == Delimited(vpath, S_corretto_ \o V_corretto)

TemurinCase ==
  /\ Delimited(vpath, S_jdk_ \o V_temurin)
  /\ ~PatternMatched(1, vpath)

LegacyCase ==
  /\ Delimited(vpath, V_legacy)
  /\ \A k \in 1..3 : ~PatternMatched(k, vpath)

NodeCase ==
  /\ Delimited(vpath, S_node_v \o V_node \o S_linux_x64)
  /\ \A k \in 1..4 : ~PatternMatched(k, vpath)

\* C8: every path in a supported vendor format yields the documented
\* canonical version, the first matching pattern deciding: Corretto
\* 11.0.26.4.1, Temurin 11.0.26_4, legacy 8u442b06, Node 22.13.1.
C8_DocumentedVersions ==
  vpc = "done" =>
    /\ CorrettoCase => vout = V_corretto
    /\ TemurinCase => vout = V_temurin
    /\ LegacyCase => vout = V_legacy
    /\ NodeCase => vout = V_node

\* the three formats other than Corretto do yield the documented version
C8_OtherFormats ==
  vpc = "done" =>
    /\ TemurinCase => vout = V_temurin
    /\ LegacyCase => vout = V_legacy
    /\ NodeCase => vout = V_node

(***************************************************************************)
(* Properties of GetAvailableVersions                                      *)
(***************************************************************************)
\* C9: the returned catalog is sorted newest-first by CompareVersions: no
\* asset precedes one that CompareVersions calls newer.
C9_SortedNewestFirst ==
  cpc = "done" =>
    \A i, j \in 1..Len(catalog) :
      i < j => ~CompareVersions(catalog[i].Version, catalog[j].Version)

\* the listing item an asset was built from
SourceOf(asset) == CHOOSE i \in 1..Len(listing) : listing[i].downloadUrl = asset.DownloadUrl

\* C10: the configured path is matched on path boundaries: no asset of the
\* catalog comes from an item under "<configured path>-extra/".
C10_PathBoundary ==
  (cpc = "done" /\ repoPath # <<>>) =>
    \A k \in 1..Len(catalog) :
      ~HasPrefix(listing[SourceOf(catalog[k])].path, repoPath \o S_extra)

(***************************************************************************)
(* Properties of Extractor.Extract                                         *)
(***************************************************************************)
\* p is root or lies below it
Within(p, root) == p = root \/ Below(p, root)

\* the joined target path of an entry leaves the destination
Escapes(name, destPath) == ~Within(Join(destPath, name), Clean(destPath))

\* the headers of the archive at xapath
XEntries == xfs0[xapath].data

\* nothing outside the destination was created, removed or rewritten
OutsideUnchanged ==
  \A p \in DOMAIN xfs \cup DOMAIN xfs0 :
    ~Within(p, Clean(xdest)) => (p \in DOMAIN xfs /\ p \in DOMAIN xfs0 /\ xfs[p] = xfs0[p])

\* C1: Extract writes nothing outside the destination directory, and stops
\* with an error at the first directory or file entry whose target escapes
\* it, before that entry is processed.
C1_NoEscape ==
  xpc = "done" =>
    /\ OutsideUnchanged
    /\ \A k \in 1..Len(XEntries) :
         (XEntries[k].typeflag \in {"dir", "reg"} /\ Escapes(XEntries[k].name, xdest)) =>
           (xerr # "" /\ xn < k)

\* an entry was extracted and the next one, which escapes, was refused
C1_Witness ==
  /\ xpc = "done"
  /\ xerr = "invalid tar path"
  /\ xn = 1
  /\ xfs # xfs0
  /\ XEntries[2].typeflag = "reg"
  /\ Escapes(XEntries[2].name, xdest)

(***************************************************************************)
(* Properties of the install command and of DownloadAndExtract             *)
(***************************************************************************)
\* every node of f at or below dir is in g, unchanged
SameBelow(f, g, dir) ==
  \A p \in DOMAIN f : (p = dir \/ Below(p, dir)) => (p \in DOMAIN g /\ g[p] = f[p])

LastStage == trace[Len(trace)]

\* DownloadAndExtract failed in its extraction stage
ExtractionFailed ==
  Len(trace) > 0 /\ LastStage.stage = "extract" /\ LastStage.err # ""

\* C2: when an install failed during extraction, after the installation
\* directory was created, nothing exists at the target version path once
\* handleInstall has returned
C2_RollbackAfterExtractionFailure ==
  (pc = "done" /\ cmd.kind = "install" /\ ExtractionFailed) => ~Exists(fs, opts.InstallPath)

\* an install whose extraction created the version directory and an entry
\* below it before failing, and which has returned
C2_Witness ==
  /\ pc = "done" /\ cmd.kind = "install" /\ ExtractionFailed
  /\ IsDirAt(fsx, opts.InstallPath)
  /\ \E p \in DOMAIN fsx : Below(p, opts.InstallPath)
  /\ ~Exists(fs, opts.InstallPath)

\* the distribution is configured for the requested SDK type
Configured(c) ==
  /\ c.sdkType \in DOMAIN SDKTypes
  /\ c.distribution \in DOMAIN SDKRepositories
  /\ SDKRepositories[c.distribution].Type = SDKTypes[c.sdkType].Type

\* the version directory of the command existed when the command started
WasInstalled ==
  /\ cmd.kind = "install"
  /\ Configured(cmd)
  /\ StatOk(fs0, GetInstallPath(cmd.sdkType, cmd.distribution, cmd.version))

\* C3: installing a version whose directory already exists ends as already
\* installed, with no network request issued and the tree unchanged
C3_AlreadyInstalledNoNetwork ==
  (pc = "done" /\ WasInstalled) => (outcome = "already installed" /\ net = <<>> /\ fs = fs0)

\* what holds of the code: no size probe, no download and no change of the
\* tree; the listing request is issued all the same
C3_AlreadyInstalledNoDownload ==
  WasInstalled => (net \in {<<>>, <<"list">>} /\ fs = fs0)

StageOrder == <<"size", "space", "stage", "download", "extract", "cleanup", "certs">>

\* the stages DownloadAndExtract runs for the SDK type of the options
StagesFor(sdkType) == IF sdkType = S_jdk THEN StageOrder ELSE SubSeq(StageOrder, 1, 6)

\* C4: the stages of one DownloadAndExtract run in the order size probe,
\* space check, cache staging, download, extraction, cache cleanup,
\* certificates; a stage starts only after the one before it completed, a
\* failure up to the extraction ends the run with that error and no later
\* stage, and the certificate stage runs only for a jdk
C4_StageOrder ==
  LET order == StagesFor(opts.SDKType)
  IN  /\ Len(trace) <= Len(order)
      /\ \A i \in 1..Len(trace) : trace[i].stage = order[i]
      /\ \A i \in 1..(Len(trace) - 1) :
           trace[i].err = "" \/ trace[i].stage \in {"cleanup", "certs"}
      /\ pc \in {"size", "space", "stage", "download", "extract", "cleanup", "certs"} =>
           (Len(trace) < Len(order) /\ pc = order[Len(trace) + 1] /\ derr = "")
      /\ (pc \in {"returned", "done"} /\ Len(trace) > 0) =>
           IF derr # ""
             THEN /\ LastStage.err = derr
                  /\ LastStage.stage \in {"size", "space", "stage", "download", "extract"}
             ELSE Len(trace) = Len(order)

\* a jdk went through all seven stages and DownloadAndExtract returned nil
C4_Witness ==
  /\ pc = "returned"
  /\ derr = ""
  /\ opts.SDKType = S_jdk
  /\ Len(trace) = 7
  /\ trace[7].stage = "certs"

\* both space checks of the running DownloadAndExtract have passed
ChecksPassed == Len(trace) >= 2 /\ trace[2].err = ""

\* DownloadAndExtract was refused for lack of space
SpaceRejected == Len(trace) = 2 /\ trace[2].err = "not enough bytes available"

CertFailed == Len(trace) = 7 /\ trace[7].stage = "certs" /\ trace[7].err # ""

\* handleInstall's own certificate step ended with an error
LinkFailed ==
  /\ pc = "done" /\ cmd.kind = "install" /\ cmd.sdkType = S_jdk
  /\ derr = "" /\ Len(trace) = 7
  /\ outcome # "installed"

\* C6: when the certificate setup of a jdk fails after a successful
\* extraction, DownloadAndExtract returns nil all the same and what was
\* extracted stays; handleInstall does not remove the installation directory
\* either when its own certificate step fails
C6_CertFailureOnlyReported ==
  /\ (pc \in {"returned", "done"} /\ CertFailed) =>
       /\ derr = ""
       /\ IsDirAt(fsr, opts.InstallPath)
       /\ SameBelow(fsx, fsr, opts.InstallPath)
       /\ (pc = "done" /\ cmd.kind = "direct") => (outcome = "returned nil" /\ fs = fsr)
  /\ LinkFailed => IsDirAt(fs, opts.InstallPath)

\* DownloadAndExtract was called for a jdk with certificates enabled, the
\* extraction put entries below the installation directory, the certificate
\* setup failed and the call returned nil
C6_Witness ==
  /\ pc = "done"
  /\ cmd.kind = "direct"
  /\ opts.SDKType = S_jdk
  /\ opts.CertConfig.Enabled
  /\ CertFailed
  /\ outcome = "returned nil"
  /\ \E p \in DOMAIN fs : Below(p, opts.InstallPath)

\* the configuration the certificate setup needs is incomplete: a path is
\* empty or the system cacerts file is not on disk
CertConfigBroken ==
  \/ general.JDKSecurityPath = <<>>
  \/ general.SystemCacertsPath = <<>>
  \/ ~StatOk(fs0, general.SystemCacertsPath)

\* C7: when a path of the certificate configuration is empty or the system
\* cacerts file is missing, the certificate setup of a jdk install fails
\* with an error and nothing of the extracted JDK is removed or replaced
C7_CertPreconditions ==
  (/\ pc = "done" /\ cmd.kind = "install" /\ cmd.sdkType = S_jdk
   /\ derr = "" /\ Len(trace) = 7
   /\ CertConfigBroken)
    => (outcome # "installed" /\ SameBelow(fsr, fs, opts.InstallPath))

\* what holds of SetupCertificates when DownloadAndExtract is called with
\* certificates enabled: with such a configuration it fails and changes nothing
C7_SetupCertificatesGuarded ==
  (/\ pc \in {"returned", "done"} /\ cmd.kind = "direct"
   /\ opts.CertConfig.Enabled /\ Len(trace) = 7
   /\ CertConfigBroken)
    => (trace[7].err # "" /\ fsr = CleanupCache(fsx, CachePathOf(opts), opts.KeepCache))

(***************************************************************************)
(* Properties of the version filter                                        *)
(***************************************************************************)
\* C11: with a non-empty filter the catalog keeps only assets whose version
\* is the filter or whose major version is the filter
C11_FilterByClassifier ==
  (cpc = "done" /\ caterr = "" /\ vfilter # <<>>) =>
    \A i \in 1..Len(catalog) :
      catalog[i].Version = vfilter \/ ExtractMajorVersion(catalog[i].Version) = vfilter

\* what holds of the code: every asset kept contains the filter
C11_FilterBySubstring ==
  (cpc = "done" /\ caterr = "" /\ vfilter # <<>>) =>
    \A i \in 1..Len(catalog) : Contains(catalog[i].Version, vfilter)

(***************************************************************************)
(* Properties of the deduplication and of the empty catalog                *)
(***************************************************************************)
\* the listing entries that pass the path check and yield version v
Yielding(v) ==
  {i \in 1..Len(listing) :
     PathMatches(listing[i].path, repoPath) /\ ExtractVersionName(listing[i].path) = v}

\* the first of them in listing order
FirstYielding(v) == CHOOSE i \in Yielding(v) : \A j \in Yielding(v) : i <= j

\* C12: the catalog holds at most one asset per version, and that asset
\* carries the download URL of the first listing entry that passes the path
\* check and yields the version
C12_FirstOccurrenceWins ==
  (cpc = "done" /\ caterr = "") =>
    /\ \A i, j \in 1..Len(catalog) : catalog[i].Version = catalog[j].Version => i = j
    /\ \A k \in 1..Len(catalog) :
         /\ Yielding(catalog[k].Version) # {}
         /\ catalog[k].DownloadUrl = listing[FirstYielding(catalog[k].Version)].downloadUrl

\* a catalog built from a listing in which two entries with different URLs
\* yield the same version
C12_Witness ==
  /\ cpc = "done" /\ caterr = ""
  /\ \E k \in 1..Len(catalog) :
       /\ Cardinality(Yielding(catalog[k].Version)) >= 2
       /\ catalog[k].DownloadUrl = listing[FirstYielding(catalog[k].Version)].downloadUrl

\* the listing entries that survive the path check, the version extraction
\* and the filter
Surviving ==
  {i \in 1..Len(listing) :
     /\ PathMatches(listing[i].path, repoPath)
     /\ ExtractVersionName(listing[i].path) # <<>>
     /\ (vfilter = <<>> \/ FilterMatches(ExtractVersionName(listing[i].path), vfilter))}

\* C13: after a successful listing response an error is returned exactly when
\* no entry survives the path check, the version extraction and the filter;
\* its message names the repository path and the filter, if there is one;
\* a nil error comes with a non-empty catalog
C13_ErrorIffEmpty ==
  (cpc = "done" /\ lresp = "ok") =>
    /\ caterr # "" <=> Surviving = {}
    /\ caterr = "" => Len(catalog) > 0
    /\ caterr # "" =>
         /\ caterr = EmptyError(vfilter)
         /\ Contains(NoVersionsMessage(repoPath, vfilter), repoPath)
         /\ Contains(NoVersionsMessage(repoPath, vfilter), vfilter)

\* a listing whose entries have a version but not the filtered one, next to
\* an entry without a version, ended with the error
C13_Witness ==
  /\ cpc = "done" /\ lresp = "ok"
  /\ caterr # ""
  /\ vfilter # <<>>
  /\ \E i \in 1..Len(listing) :
       PathMatches(listing[i].path, repoPath) /\ ExtractVersionName(listing[i].path) # <<>>
  /\ \E i \in 1..Len(listing) : ExtractVersionName(listing[i].path) = <<>>

(***************************************************************************)
(* Properties of CompareVersions                                           *)
(***************************************************************************)
\* C14: of two different versions exactly one is older than the other
C14_ExactlyOneOlder ==
  (cmpPc # "call" /\ cmpIn[1] # cmpIn[2]) => (cmpOut.ab <=> ~cmpOut.ba)

\* C15: CompareVersions is irreflexive, asymmetric and transitive
C15_StrictOrder ==
  cmpPc # "call" =>
    /\ ~cmpOut.aa
    /\ ~(cmpOut.ab /\ cmpOut.ba)
    /\ (cmpOut.ab /\ cmpOut.bc) => cmpOut.ac

\* what holds of the code: irreflexive and asymmetric
C15_IrreflexiveAsymmetric ==
  cmpPc # "call" => (~cmpOut.aa /\ ~(cmpOut.ab /\ cmpOut.ba))

\* ---------------------------------------------------------------------
\* The classifiers of the major version
\* ---------------------------------------------------------------------

RECURSIVE DigitRun(_)
\* The longest prefix of s made of digits
DigitRun(s) ==
  IF s # <<>> /\ s[1] \in Digit THEN <<s[1]>> \o DigitRun(Drop(s, 1)) ELSE <<>>

\* The stated rule: the leading digits when '.' or 'u' follows them, else
\* the sentinel
StatedMajor(s) ==
  LET run == DigitRun(s)
  IN  IF run # <<>> /\ Len(s) > Len(run) /\ s[Len(run) + 1] \in {".", "u"}
        THEN run
        ELSE S_unknown

\* C16: the classifier of the repository package and the classifier of the
\* available command both return the leading digits before '.' or 'u', and
\* "unknown" for every other version, the empty one included
C16_EveryClassifierFollowsRule ==
  cmpPc = "done" =>
    /\ cmpOut.major = StatedMajor(cmpIn[1])
    /\ cmpOut.cmdMajor = StatedMajor(cmpIn[1])

\* C16, the repository package alone: repository.ExtractMajorVersion
\* follows the stated rule
C16_RepositoryClassifierFollowsRule ==
  cmpPc = "done" => cmpOut.major = StatedMajor(cmpIn[1])

\* C16, the versions on which the two classifiers disagree are those the
\* command's classifier does not send to "unknown"
C16_ClassifiersAgreeOnDottedAndLegacy ==
  (cmpPc = "done" /\ cmpOut.major # S_unknown) => cmpOut.cmdMajor = cmpOut.major

\* ---------------------------------------------------------------------
\* The disk space checks
\* ---------------------------------------------------------------------

\* Statfs succeeded on the path of a call for a size that is not negative
SpaceChecked ==
  /\ dskPc = "done"
  /\ dskIn.requiredBytes >= 0
  /\ StatOk(dskIn.fs, CacheDir)

\* C17: for every required size r >= 0 and every available count a, both
\* checks fail exactly when a < 2*r, pass when a >= 2*r, and the doubled
\* requirement is never smaller than 2*r
C17_FailsExactlyBelowTwice ==
  SpaceChecked =>
    /\ (dskOut.core # "") <=> (dskIn.available < 2 * dskIn.requiredBytes)
    /\ (dskOut.downloader # "") <=> (dskIn.available < 2 * dskIn.requiredBytes)
    /\ Required(dskIn.requiredBytes) = 2 * dskIn.requiredBytes

\* the largest size, checked at the boundary a = 2*r, passes
C17_Witness ==
  /\ SpaceChecked
  /\ dskIn.requiredBytes = MaxInt
  /\ dskIn.available = 2 * MaxInt
  /\ dskOut.core = ""
  /\ dskOut.downloader = ""

\* ---------------------------------------------------------------------
\* The staging of archives in the cache
\* ---------------------------------------------------------------------

\* C18: when the download stage starts with a file already at the staging
\* path, no request is issued and the staged file is left as it is
C18_StagedFileReused ==
  [][(pc = "download" /\ IsFileAt(fs, CacheFileOf(opts))) =>
       (net' = net /\ fs'[CacheFileOf(opts)] = fs[CacheFileOf(opts)])]_vars

\* C18, the staging path alone: a finished download left the archive at
\* <cacheDir>/<sdkType>/<distribution>/<version>/<archiveFilename>
C18_StagedAtCachePath ==
  pc = "extract" =>
    IsFileAt(fs, JoinAll(<<opts.CacheDir, opts.SDKType, opts.Distribution, opts.Version,
                           Base(opts.DownloadURL)>>))

\* ---------------------------------------------------------------------
\* The cleanup of the cache
\* ---------------------------------------------------------------------

\* the paths of f that are gone from g
Removed(f, g) == DOMAIN f \ DOMAIN g

\* g keeps every node it has in common with f as it was, and has no new one
OnlyRemoved(f, g) == DOMAIN g \subseteq DOMAIN f /\ \A p \in DOMAIN g : g[p] = f[p]

\* C19: cleanup with keepCache = false removes the staged archive and only
\* directories strictly below the cache root, so the cache root and the
\* directories above it still exist; with keepCache = true nothing is removed
C19_CacheRootSurvivesCleanup ==
  [][pc = "cleanup" =>
       IF opts.KeepCache
         THEN fs' = fs
         ELSE /\ OnlyRemoved(fs, fs')
              /\ ~Exists(fs', CacheFileOf(opts))
              /\ \A p \in Removed(fs, fs') : Below(p, opts.CacheDir)
              /\ \A p \in Chain(opts.CacheDir) : IsDirAt(fs', p)]_vars

\* C19, without the bound at the cache root: what cleanup removes is the
\* staging directory with all it holds and directories above it, each of
\* them empty by then; with keepCache = true nothing is removed
C19_CleanupRemovesOnlyEmptyAncestors ==
  [][pc = "cleanup" =>
       IF opts.KeepCache
         THEN fs' = fs
         ELSE /\ OnlyRemoved(fs, fs')
              /\ ~Exists(fs', CacheFileOf(opts))
              /\ \A p \in Removed(fs, fs') :
                   \/ p = CachePathOf(opts)
                   \/ Below(p, CachePathOf(opts))
                   \/ /\ p \in Chain(CachePathOf(opts))
                      /\ IsDirAt(fs, p)
                      /\ \A q \in DOMAIN fs' : ~Below(q, p)]_vars

\* ---------------------------------------------------------------------
\* The lookups of the extracted root directory
\* ---------------------------------------------------------------------

\* handleInstall looked the extracted directory of a jdk up
InstallLookedUp ==
  /\ pc = "done" /\ cmd.kind = "install" /\ cmd.sdkType = S_jdk
  /\ derr = "" /\ Len(trace) = 7

\* the version directory of the command
VersionPath == GetInstallPath(cmd.sdkType, cmd.distribution, cmd.version)

\* the use command looked the root directory of an installed version up
UseLookedUp == pc = "used" /\ Exists(fs, VersionPath)

\* the use command ended as it must with these candidate roots
UseExplicit(roots) ==
  IF Cardinality(roots) = 1
    THEN outcome = "active" /\ fs[CurrentLink(cmd.sdkType)] = LinkNode(FirstByName(roots))
    ELSE outcome = "failed to find SDK binary path"

\* C20: every lookup of the extracted root directory, at install time and
\* at use time, fails with an error when the version directory holds no
\* candidate or more than one, and returns the only candidate otherwise
C20_EveryLookupExplicit ==
  /\ (InstallLookedUp /\ Cardinality(JdkDirs(fsr, opts.InstallPath)) # 1) =>
       outcome = "could not find JDK directory"
  /\ (UseLookedUp /\ cmd.kind = "use") => UseExplicit(SubDirs(fs, VersionPath))
  /\ (UseLookedUp /\ cmd.kind = "useByPrefix") =>
       UseExplicit(PrefixDirs(fs, VersionPath, cmd.sdkType))

\* C20, the lookup of use.go alone: it fails unless the version directory
\* holds exactly one directory, which the active link then points to
C20_UseLookupExplicit ==
  (UseLookedUp /\ cmd.kind = "use") => UseExplicit(SubDirs(fs, VersionPath))

\* C20, the lookups by name: with no directory named after the SDK type they
\* fail, and otherwise they take the first one in the order of the names
C20_LookupByNameTakesFirst ==
  /\ InstallLookedUp =>
       IF JdkDirs(fsr, opts.InstallPath) = {}
         THEN outcome = "could not find JDK directory"
         ELSE outcome # "could not find JDK directory"
  /\ (UseLookedUp /\ cmd.kind = "useByPrefix") =>
       IF PrefixDirs(fs, VersionPath, cmd.sdkType) = {}
         THEN outcome = "failed to find SDK binary path"
         ELSE /\ outcome = "active"
              /\ fs[CurrentLink(cmd.sdkType)] =
                   LinkNode(FirstByName(PrefixDirs(fs, VersionPath, cmd.sdkType)))

\* two candidate roots were extracted and the install command reported success
C20_TwoRootsInstalled ==
  /\ InstallLookedUp
  /\ Cardinality(JdkDirs(fsr, opts.InstallPath)) = 2
  /\ outcome = "installed"

\* ---------------------------------------------------------------------
\* Installs that do not complete
\* ---------------------------------------------------------------------

\* handleInstall called DownloadAndExtract and ended without reporting the
\* version as installed
InstallIncomplete ==
  /\ pc = "done" /\ cmd.kind = "install"
  /\ Len(trace) > 0
  /\ outcome # "installed"

\* C24: when handleInstall ends without having completed the installation,
\* whatever the step that failed, no directory remains at the version path
C24_NothingLeftAfterFailedInstall ==
  InstallIncomplete => ~Exists(fs, opts.InstallPath)

\* C24, step by step: the version path is removed after an error of
\* DownloadAndExtract, and left in place when the lookup of the JDK
\* directory or the link to the system certificates fails
C24_RemovedOnlyAfterDownloadError ==
  InstallIncomplete =>
    IF derr # "" THEN ~Exists(fs, opts.InstallPath) ELSE IsDirAt(fs, opts.InstallPath)

\* the JDK directory was not found after a successful extraction, and the
\* version directory is still there
C24_RootNotFoundLeftBehind ==
  /\ InstallIncomplete
  /\ outcome = "could not find JDK directory"
  /\ IsDirAt(fs, opts.InstallPath)

\* ---------------------------------------------------------------------
\* The backup of the trust store
\* ---------------------------------------------------------------------

\* SetupCertificates ran with certificates enabled and returned nil
CertsReplaced ==
  /\ pc \in {"returned", "done"} /\ cmd.kind = "direct"
  /\ opts.CertConfig.Enabled
  /\ Len(trace) = 7 /\ trace[7].stage = "certs" /\ trace[7].err = ""

\* the cacerts file of the JDK
JdkCacerts == Join(opts.InstallPath, opts.CertConfig.JDKSecurityPath)

\* C25: after a successful certificate setup the backup <cacerts>.original
\* holds the bytes the JDK's trust store had, and <cacerts> holds the bytes
\* of the system trust store
C25_BackupKeepsOriginal ==
  CertsReplaced =>
    /\ Content(fsr, JdkCacerts \o S_original) = Content(fsx, JdkCacerts)
    /\ Content(fsr, JdkCacerts) = Content(fsr, opts.CertConfig.SystemCacertsPath)

\* C25, what the setup does leave: <cacerts> holds the bytes of the system
\* trust store, and the backup is the same file as <cacerts>
C25_BackupIsSameFile ==
  CertsReplaced =>
    /\ Content(fsr, JdkCacerts) = Content(fsr, opts.CertConfig.SystemCacertsPath)
    /\ fsr[JdkCacerts \o S_original] = fsr[JdkCacerts]

\* a setup that replaced a trust store whose bytes were not the system's
C25_StoreReplaced ==
  /\ CertsReplaced
  /\ Content(fsx, JdkCacerts) # Content(fsr, JdkCacerts)

\* ---------------------------------------------------------------------
\* The activation of an installed version
\* ---------------------------------------------------------------------

\* the use command runs for a jdk that handleInstall just reported installed
UseAfterInstalled ==
  /\ pc = "done" /\ cmd.kind = "install" /\ cmd.sdkType = S_jdk
  /\ outcome = "installed"
  /\ pc' = "used"

\* C26: every jdk version that handleInstall reports as installed can be
\* activated afterwards, whatever top directories the archive produced
C26_InstalledCanBeActivated ==
  [][UseAfterInstalled => outcome' = "active"]_vars

\* C26, the revision of the use command that looks the directory up by its
\* name as handleInstall does: it activates an installed jdk exactly when a
\* directory named jdk* is left once the certificates were linked
C26_LookupByNameActivates ==
  [][(UseAfterInstalled /\ cmd'.kind = "useByPrefix") =>
       (outcome' = "active" <=> PrefixDirs(fs, opts.InstallPath, S_jdk) # {})]_vars

\* C26, the lookup of use.go: it activates an installed jdk exactly when
\* the version directory holds one directory
C26_CountingLookupActivates ==
  [][(UseAfterInstalled /\ cmd'.kind = "use") =>
       (outcome' = "active" <=> Cardinality(SubDirs(fs, opts.InstallPath)) = 1)]_vars

\* ---------------------------------------------------------------------
\* The entries Extract accepts
\* ---------------------------------------------------------------------

\* entry k of the archive was refused as an invalid path
Refused(k) == xerr = "invalid tar path" /\ xn = k - 1

\* the loop of extractTar got to entry k
Reached(k) ==
  /\ xerr \notin {"destination path must be absolute", "unsupported archive format",
                  "failed to open archive"}
  /\ xn >= k - 1

\* C27: Extract refuses only entries whose joined target path escapes the
\* destination: an entry whose target is the destination itself or lies
\* beneath it is accepted, so archives made of '.', './' and './<name>' extract
C27_OnlyEscapingEntriesRefused ==
  xpc = "done" =>
    \A k \in 1..Len(XEntries) :
      (XEntries[k].typeflag \in {"dir", "reg"} /\ ~Escapes(XEntries[k].name, xdest)) =>
        ~Refused(k)

\* C27, what is accepted: an entry is refused exactly when its target is
\* not strictly beneath the destination; the destination itself is refused
C27_RefusedUnlessStrictlyBelow ==
  xpc = "done" =>
    \A k \in 1..Len(XEntries) :
      (XEntries[k].typeflag \in {"dir", "reg"} /\ Reached(k)) =>
        (Refused(k) <=> ~Below(Join(xdest, XEntries[k].name), Clean(xdest)))

\* an archive that starts with the directory entry './' was refused there
C27_DotEntryRefused ==
  /\ xpc = "done"
  /\ Len(XEntries) >= 1
  /\ XEntries[1] = HdrDir(<<".", "/">>)
  /\ Refused(1)

\* ---------------------------------------------------------------------
\* The lines of the shell configuration file
\* ---------------------------------------------------------------------

\* a is b with some elements left out: the elements of a occur in b in order
RECURSIVE IsSubsequence(_, _)
IsSubsequence(a, b) ==
  IF Len(a) = 0 THEN TRUE
  ELSE IF Len(b) = 0 THEN FALSE
  ELSE IF a[1] = b[1] THEN IsSubsequence(Tail(a), Tail(b))
  ELSE IsSubsequence(a, Tail(b))

\* the lines the user's file held before any command, the empty ones aside
UserLines == SelectSeq(Split(shFiles0[H_bashrc], NL), LAMBDA line : line # <<>>)

\* a line cleanJavaHome leaves out
NamesJavaHome(line) == Contains(line, S_JAVA_HOME_is) \/ Contains(line, S_PATH_JAVA_HOME)

\* C28: after any sequence of use --set-env, use --unset and clean, every
\* line of the file that configureEnvironment did not write is still
\* there, unchanged and in order
C28_UserLinesSurvive ==
  shN > 0 => IsSubsequence(UserLines, Split(shFiles[H_bashrc], NL))

\* C28, the lines that do survive: those of the user that do not name JAVA_HOME
C28_OtherUserLinesSurvive ==
  shN > 0 =>
    IsSubsequence(SelectSeq(UserLines, LAMBDA line : ~NamesJavaHome(line)),
                  Split(shFiles[H_bashrc], NL))

\* clean took the user's own JAVA_HOME line out
C28_UserJavaHomeRemoved ==
  /\ shN > 0
  /\ shOut = "cleaned"
  /\ \E i \in 1..Len(UserLines) : UserLines[i] = U_java
  /\ \A i \in 1..Len(Split(shFiles[H_bashrc], NL)) : Split(shFiles[H_bashrc], NL)[i] # U_java

(***************************************************************************)
(* Properties of handleRemove                                              *)
(***************************************************************************)
\* the version the remove command named
RemovedVersionPath == GetInstallPath(cmd.sdkType, cmd.distribution, cmd.version)

\* handleRemove returned nil
RemoveDone == pc = "removed" /\ outcome = "removed"

\* the active-version link of the SDK type is absent or names an existing
\* directory below an existing version directory of the type
LinkSound(f, sdkType) ==
  LET linkPath == CurrentLink(sdkType)
      typeDir == Join(SDKInstallDir, SDKTypes[sdkType].InstallDir)
  IN  (linkPath \in DOMAIN f /\ f[linkPath].kind = "link") =>
        /\ IsDirAt(f, f[linkPath].to)
        /\ Below(f[linkPath].to, typeDir)

\* C23: after any sequence of install, use and remove commands the link
\* current-<sdkType>, whenever it exists, points to an existing root
\* directory inside an installed version directory
C23_ActiveLinkNeverDangling ==
  pc \in {"done", "used", "removed"} => \A t \in DOMAIN SDKTypes : LinkSound(fs, t)

\* what the code does keep: install and use leave no dangling link behind
C23_InstallAndUseKeepLinkSound ==
  pc \in {"done", "used"} => \A t \in DOMAIN SDKTypes : LinkSound(fs, t)

\* the active version was removed and its link still names the removed root
C23_ActiveVersionRemoved ==
  /\ RemoveDone
  /\ CurrentLink(cmd.sdkType) \in DOMAIN fs
  /\ Below(fs[CurrentLink(cmd.sdkType)].to, RemovedVersionPath)
  /\ ~Exists(fs, fs[CurrentLink(cmd.sdkType)].to)

\* the directory of the distribution and the directory of the SDK type, as
\* GetInstallPath lays them out
DistributionDir == Dir(RemovedVersionPath)

TypeDir == Dir(DistributionDir)

\* the step of the remove command
RemoveStep == pc \in {"done", "used"} /\ pc' = "removed" /\ outcome' = "removed"

\* C29: after handleRemove removed the last version of a distribution the
\* empty distribution directory is removed, then the install directory of
\* the type if it is empty too; a directory that still holds an entry stays
C29_EmptyDirectoriesPruned ==
  RemoveDone =>
    /\ ~(IsDirAt(fs, DistributionDir) /\ Children(fs, DistributionDir) = {})
    /\ ~(IsDirAt(fs, TypeDir) /\ Children(fs, TypeDir) = {})

\* what the code does: nothing but the version directory and, on request,
\* the cache directory of the version leaves the tree when the install
\* directory is not named after the SDK type; no directory that still holds
\* an entry is removed
C29_OnlyVersionAndCacheRemoved ==
  [][RemoveStep =>
       \A p \in DOMAIN fs \ DOMAIN fs' :
         \/ p = RemovedVersionPath \/ Below(p, RemovedVersionPath)
         \/ Below(p, Join(CacheDir, cmd.sdkType)) \/ p = Join(CacheDir, cmd.sdkType)]_vars

\* the last version of the distribution was removed and its empty
\* directory is still there
C29_EmptyDistributionLeft ==
  /\ RemoveDone
  /\ IsDirAt(fs, DistributionDir)
  /\ Children(fs, DistributionDir) = {}

(***************************************************************************)
(* Properties of two install commands running at the same time             *)
(***************************************************************************)
\* every entry of the archive is in place below the version directory
ParComplete(f) ==
  \A k \in 1..Len(ParBody) : Exists(f, Join(ParOpts.InstallPath, ParBody[k].name))

ParAllDone == \A i \in Procs : parProc[i].pc = "done"

\* C21: with the staged file created and written in one exclusive step,
\* every install that reports success leaves a complete extracted
\* installation directory at the version path, whatever the interleaving
C21_SuccessLeavesCompleteInstall ==
  ParAllDone => \A i \in Procs : parProc[i].out = "installed" => ParComplete(parFs)

\* what the code does keep: when no command failed the installation is
\* complete
C21_CompleteWhenNoneFailed ==
  (ParAllDone /\ \A i \in Procs : parProc[i].out \in {"installed", "already installed"})
    => ParComplete(parFs)

\* one command reported success and the cleanup of the other, which failed,
\* removed the version directory
C21_RemovedByTheOther ==
  /\ ParAllDone
  /\ \E i \in Procs : parProc[i].out = "installed"
  /\ \E i \in Procs : parProc[i].out = "installation failed"
  /\ ~Exists(parFs, ParOpts.InstallPath)

(***************************************************************************)
(* Properties of the switch of the active version                          *)
(***************************************************************************)
\* the link the running use command is about
SwitchedLink == CurrentLink(swCmd.sdkType)

\* the use command found a link in place when it started
LinkExisted == swCmd # NoCommand /\ SwitchedLink \in DOMAIN swFs0

\* C22: switching the active version when a current-<sdkType> link exists
\* is remove-then-recreate: between the two calls no link exists, and a
\* reader that looks then finds none
C22_NoLinkBetweenRemoveAndCreate ==
  /\ (swPc = "symlink" /\ LinkExisted) => SwitchedLink \notin DOMAIN swFs
  /\ \A k \in 1..Len(swSeen) :
       (swSeen[k].pc = "symlink" /\ swSeen[k].sdkType = swSeen[k].during) => ~swSeen[k].link

\* a reader saw the link before the switch and found none in the middle of it
C22_Witness ==
  /\ swPc = "symlink"
  /\ LinkExisted
  /\ Len(swSeen) = 2
  /\ swN = 1
  /\ swSeen[1].sdkType = swCmd.sdkType /\ swSeen[1].link /\ swSeen[1].pc \in {"lookup", "unlink"}
  /\ swSeen[2].sdkType = swCmd.sdkType /\ ~swSeen[2].link /\ swSeen[2].pc = "symlink"

\* the steps taken one after the other end as handleUse does
C22_StepsAreHandleUse ==
  swPc = "done" =>
    LET installPath == GetInstallPath(swCmd.sdkType, swCmd.distribution, swCmd.version)
        r == handleUse(swFs0, swCmd.sdkType, swCmd.distribution, swCmd.version,
                       getSDKBinPath(swFs0, installPath, swCmd.sdkType))
    IN  swFs = r.fs /\ (swOut = "active") = (r.err = "")

====
